---- MODULE Spec2Model ----
(***************************************************************************)
(* Bulk monthly billing generation and billing aggregation of ipl-be-svc.  *)
(*                                                                         *)
(* The HTTP handler (internal/handler) and the billing repository          *)
(* (internal/repository/billing_repository.go) are translated from their   *)
(* source.  The billing service that sits between them (package service:   *)
(* CreateBulkMonthlyBillings, CreateBulkMonthlyBillingsForAllUsers,        *)
(* GetBillingPenghuni) and the models SettingBilling, User and             *)
(* BillingProfileLink are not among the source files; they are modelled    *)
(* from the design document, sections 4.3 to 4.5.                          *)
(*                                                                         *)
(* A request is cut into steps at its storage calls, so that requests      *)
(* interleave exactly where the Go code can be suspended.                  *)
(***************************************************************************)
EXTENDS Integers, Sequences, FiniteSets, TLC

VARIABLES
    userRoles,    \* up_users_role_lnk: set of <<user_id, role_id>>
    settings,     \* setting billing table: sequence of rows
    billings,     \* billings table: sequence of rows, in insertion order
    links,        \* billing-profile link table: sequence of rows
    pc,           \* per request: position in the handler/service code
    req,          \* per request: the bound BulkBillingRequest
    users,        \* per request: resolved user identifiers (a list)
    setts,        \* per request: loaded active monthly settings (a list)
    idx,          \* per request: index of the next (user, setting) pair
    newBillings,  \* per request: Billing records constructed so far
    newLinks,     \* per request: BillingProfileLink records constructed so far
    resp,         \* per request: BulkBillingResponse counters
    status,       \* per request: HTTP status written (0 = none yet)
    serviceErr,   \* per request: error the service returned ("" = nil)
    calls,        \* per request: repository calls made, in order
    attempts,     \* per request: (user, setting) pairs attempted, in order
    during,       \* per request: requests that were in flight when it was bound
    report,       \* result of the last GetBillingPenghuni call
    aggCalls,     \* number of GetBillingPenghuni calls made
    lookup,       \* result of the last GetBillingByID call
    menuStore,    \* menus reachable by each user through its roles
    menuReq,      \* GET /menus/user/:id: the last request
    menuOut,      \* GET /menus/user/:id: responses written for it, in order
    rmStore,      \* role menus and their two association tables
    rmCall,       \* RoleMenuRepository.Delete: the last call and its result
    mmRows,       \* master_menus: set of rows
    mmNextId,     \* master_menus: next identifier of the sequence
    mmClock,      \* number of writes to master_menus so far (time of updated_at)
    mmReq,        \* per master menu request: operation, position, locals, result
    pgOut,        \* paginated listing: the last call and its response
    payOut,       \* POST /payments/billing/:id/link: the last request and its responses
    bIn,          \* batch scenario: [n, failAt] handed to CreateInBatches
    bOut          \* batch scenario: outcome of CreateInBatches

vars == <<userRoles, settings, billings, links, pc, req, users, setts, idx,
          newBillings, newLinks, resp, status, serviceErr, calls, attempts,
          during, report, aggCalls, lookup, menuStore, menuReq, menuOut,
          rmStore, rmCall, mmRows, mmNextId, mmClock, mmReq, pgOut, payOut, bIn, bOut>>

storageVars == <<userRoles, settings, billings, links>>
reqVars == <<pc, req, users, setts, idx, newBillings, newLinks, resp, status,
             serviceErr, calls, attempts, during>>
aggVars == <<report, aggCalls>>
batchVars == <<bIn, bOut>>
menuVars == <<menuStore, menuReq, menuOut>>
roleMenuVars == <<rmStore, rmCall>>
masterVars == <<mmRows, mmNextId, mmClock, mmReq>>
httpVars == <<pgOut, payOut>>
adminVars == <<menuVars, roleMenuVars, masterVars, httpVars>>

-----------------------------------------------------------------------------
(* Bounds of the model *)

MaxReqs == 2          \* bulk-generation requests per behaviour
MaxAggCalls == 1      \* aggregation calls per behaviour
MaxRows == 250        \* longest record list of the batch scenario

Reqs == 1..MaxReqs

\* up_users rows, and the identifiers a caller may send (3 is no user).
UserTable == {1, 2}
UserIdLists == {<<>>, <<1, 1>>, <<3, 2>>}

\* <<month, year>> values a caller may send (0 is a missing field).
Periods == { <<3, 2025>>, <<12, 2025>>,
             <<0, 2025>>, <<13, 2025>>, <<3, 0>>, <<3, 1999>>, <<3, 2101>> }

-----------------------------------------------------------------------------
(* Storage *)

\* up_roles: role id -> type.  Roles 1 and 2 are both of the occupant type.
RoleIds == {1, 2, 3}
RoleType(role) == IF role \in {1, 2} THEN "penghuni" ELSE "admin"

\* profiles: the profile of user u has identifier u; every up_users row has
\* one, an identifier that is no user has none.
HasProfile(u) == u \in UserTable

\* Role assignments the storage may hold when the service starts.
UserRoleChoices ==
    { {<<1, 3>>},                          \* no occupant at all
      {<<1, 1>>, <<2, 1>>},                \* two occupants
      {<<1, 1>>, <<1, 2>>, <<2, 1>>} }     \* user 1 holds two occupant roles

SettingRow(id, jenis, active, published, nominal) ==
    [id |-> id, jenis_billing |-> jenis, is_active |-> active,
     published |-> published, nominal |-> nominal]

\* Rows that fail exactly one of the three conditions of the loader.
DeadSettings ==
    << SettingRow(3, "tahunan", TRUE, TRUE, 7000),
       SettingRow(4, "bulanan", FALSE, TRUE, 3000),
       SettingRow(5, "bulanan", TRUE, FALSE, 2000) >>

SettingChoices ==
    { DeadSettings,
      <<SettingRow(1, "bulanan", TRUE, TRUE, 10000)>> \o DeadSettings,
      <<SettingRow(1, "bulanan", TRUE, TRUE, 10000),
        SettingRow(2, "bulanan", TRUE, TRUE, 5000)>> \o DeadSettings }

-----------------------------------------------------------------------------
(* Repository: billing_repository.go *)

\* The rows of up_users JOIN up_users_role_lnk JOIN up_roles, in a fixed
\* order (the query has no ORDER BY; no property depends on the order).
JoinOrder ==
    << <<1, 1>>, <<1, 2>>, <<1, 3>>, <<2, 1>>, <<2, 2>>, <<2, 3>> >>

IsPenghuniRow(row) ==
    /\ row[1] \in UserTable
    /\ row \in userRoles
    /\ RoleType(row[2]) = "penghuni"

\* Mutant: the join without the filter on the role type.
GetUsersWithPenghuniRoleAnyType ==
    LET rows == SelectSeq(JoinOrder, LAMBDA row : row \in userRoles)
    IN  [i \in 1..Len(rows) |-> rows[i][1]]

\* One list element per joined row: a user is listed once per occupant role.
GetUsersWithPenghuniRole ==
    LET rows == SelectSeq(JoinOrder, IsPenghuniRow)
    IN  [i \in 1..Len(rows) |-> rows[i][1]]

\* Mutant: the WHERE clause without "published_at IS NOT NULL".
IsActiveMonthlyUnpublished(s) ==
    /\ s.jenis_billing = "bulanan"
    /\ s.is_active = TRUE

\* Mutant: the WHERE clause without "is_active = ?".
IsActiveMonthlyInactive(s) ==
    /\ s.jenis_billing = "bulanan"
    /\ s.published

\* jenis_billing = ? AND is_active = ? AND published_at IS NOT NULL
IsActiveMonthly(s) ==
    /\ s.jenis_billing = "bulanan"
    /\ s.is_active = TRUE
    /\ s.published

GetActiveMonthlySettingBillings == SelectSeq(settings, IsActiveMonthly)

\* Batch size of both bulk inserts.
BatchSize == 100

Min(a, b) == IF a < b THEN a ELSE b

\* Number of batches gorm's CreateInBatches cuts a list of n rows into.
NumBatches(n) == (n + BatchSize - 1) \div BatchSize

\* The rows of batch k of a list: positions (k-1)*BatchSize+1 .. k*BatchSize.
Batch(rows, k) ==
    SubSeq(rows, (k - 1) * BatchSize + 1, Min(k * BatchSize, Len(rows)))

RECURSIVE Batches(_, _)
Batches(rows, k) ==
    IF k > NumBatches(Len(rows)) THEN <<>>
    ELSE <<Batch(rows, k)>> \o Batches(rows, k + 1)

\* Mutant: batches inserted one by one with no enclosing transaction, so the
\* batches before the failing one stay.
CreateInBatchesNoTx(rows, failAt) ==
    LET all == Batches(rows, 1)
        failed == failAt \in 1..Len(all)
        issued == IF failed THEN SubSeq(all, 1, failAt) ELSE all
    IN  [ok |-> ~failed,
         issued |-> issued,
         persisted |-> IF failed
                       THEN SubSeq(rows, 1, (failAt - 1) * BatchSize)
                       ELSE rows]

\* db.CreateInBatches(rows, 100): the list is cut into batches in list order
\* and one INSERT is issued per batch until one fails; failAt is the batch
\* whose INSERT fails (0: none).  A list of at most one batch is one atomic
\* statement; a longer list runs inside one transaction (gorm's default, the
\* "in a transaction" of the repository's comments), which is rolled back
\* when a batch fails.  Either way a failure leaves no row.
CreateInBatches(rows, failAt) ==
    LET all == Batches(rows, 1)
        failed == failAt \in 1..Len(all)
        issued == IF failed THEN SubSeq(all, 1, failAt) ELSE all
    IN  [ok |-> ~failed,
         issued |-> issued,
         persisted |-> IF failed THEN <<>> ELSE rows]

-----------------------------------------------------------------------------
(* Handler: request binding, billing_handler.go *)

\* Mutant: the month tag without its upper limit.
ValidMonthNoMax(m) == m # 0 /\ m >= 1

\* binding:"required,min=1,max=12"
ValidMonth(m) == m # 0 /\ m >= 1 /\ m <= 12

\* Mutant: the year tag without its lower limit.
ValidYearNoMin(y) == y # 0 /\ y <= 2100

\* binding:"required,min=2020,max=2100"
ValidYear(y) == y # 0 /\ y >= 2020 /\ y <= 2100

\* c.ShouldBindJSON(&req) returns no error
ValidRequest(r) == ValidMonth(r.month) /\ ValidYear(r.year)

NoRequest == [user_ids |-> <<>>, month |-> 0, year |-> 0]
NoLookup == [id |-> 0, found |-> FALSE, nominal |-> 0]
NoCounts == [total_users |-> 0, total_billings |-> 0,
             success_count |-> 0, failed_count |-> 0]

InFlight == {r \in Reqs : pc[r] \notin {"idle", "done"}}

\* The handler writes its response and returns.
Finish(r, code) ==
    /\ status' = [status EXCEPT ![r] = code]
    /\ pc' = [pc EXCEPT ![r] = "done"]

\* Mutant: the handler answers 200 whatever the service returned.
HandlerStatusAlwaysOK(err) == 200

\* if serviceErr != nil: 500 with the error; otherwise 200 with the response.
HandlerStatus(err) == IF err # "" THEN 500 ELSE 200

\* The service returns err to the handler ("" for nil), which answers.
Return(r, err) ==
    /\ serviceErr' = [serviceErr EXCEPT ![r] = err]
    /\ Finish(r, HandlerStatus(err))

\* Mutant: the 500 body also carries the counters of the response.
ResponseBodyWithCounts(r) ==
    IF status[r] = 400
    THEN [error |-> "Invalid request body", message |-> "validation"]
    ELSE IF serviceErr[r] # ""
    THEN [error |-> "Failed to create billings", message |-> serviceErr[r]]
         @@ resp[r]
    ELSE resp[r]

\* The JSON body the handler writes: gin.H{"error", "message"} with 400 and
\* with 500, the service's response with 200.
ResponseBody(r) ==
    IF status[r] = 400
    THEN [error |-> "Invalid request body", message |-> "validation"]
    ELSE IF serviceErr[r] # ""
    THEN [error |-> "Failed to create billings", message |-> serviceErr[r]]
    ELSE resp[r]

-----------------------------------------------------------------------------
(* Service: pair construction and counters (design document 4.3) *)

\* Mutant: the loop ends after the pairs of the first user.
NumPairsFirstUser(r) == IF users[r] = <<>> THEN 0 ELSE Len(setts[r])

NumPairs(r) == Len(users[r]) * Len(setts[r])

\* Pair k of the loop "for each user, for each setting".
PairUser(r, k) == users[r][((k - 1) \div Len(setts[r])) + 1]
PairSetting(r, k) == setts[r][((k - 1) % Len(setts[r])) + 1]

\* Construction of a pair fails when the user has no profile to link to.
CanConstruct(u) == HasProfile(u)

NewBilling(u, s, month, year) ==
    [id |-> 0, bulan |-> month, tahun |-> year, nominal |-> s.nominal,
     user |-> u, setting |-> s.id]

NewLink(u) == [profile |-> u]

\* Mutant: a failed pair is counted in neither counter.
CountPairDropFailed(c, ok) ==
    [c EXCEPT !.total_billings = @ + 1,
              !.success_count = IF ok THEN @ + 1 ELSE @]

\* One pair attempted: total and exactly one of success / failed go up.
CountPair(c, ok) ==
    [c EXCEPT !.total_billings = @ + 1,
              !.success_count = IF ok THEN @ + 1 ELSE @,
              !.failed_count = IF ok THEN @ ELSE @ + 1]

-----------------------------------------------------------------------------
(* Endpoints outside billing: state before any request *)

NoMenuRequest == [param |-> <<>>, fail |-> FALSE]

MenuIdle ==
    /\ menuStore = [u \in UserTable |-> <<>>]
    /\ menuReq = NoMenuRequest
    /\ menuOut = <<>>

NoRoleMenus == [menus |-> {}, masterLinks |-> {}, roleLinks |-> {}]

NoRoleMenuCall == [called |-> FALSE, id |-> 0, err |-> <<>>,
                   before |-> NoRoleMenus]

RoleMenuIdle ==
    /\ rmStore = NoRoleMenus
    /\ rmCall = NoRoleMenuCall

MaxMasterReqs == 2    \* master menu requests per behaviour

MasterReqs == 1..MaxMasterReqs

Nil == "nil"

MasterRow(id, kode, nama) ==
    [id |-> id, document_id |-> "", nama_menu |-> nama, kode_menu |-> kode,
     urutan_menu |-> Nil, is_active |-> Nil, locale |-> Nil, updated_at |-> 0]

\* A nil *models.MasterMenu: identifiers of stored rows start at 1.
NoRow == MasterRow(0, "", "")

NoMasterRequest ==
    [op |-> "none", id |-> 0, body |-> Nil, pc |-> "idle", m |-> NoRow,
     err |-> "", before |-> {}, during |-> {}]

MasterIdle ==
    /\ mmRows = {}
    /\ mmNextId = 1
    /\ mmClock = 0
    /\ mmReq = [r \in MasterReqs |-> NoMasterRequest]

\* A query parameter: absent from the URL, or present with a text.
Absent == [present |-> FALSE, text |-> <<>>]

\* utils.PaginationResponse before any response was written.
NoPagination == [page |-> 0, limit |-> 0, total |-> 0, total_pages |-> 0]

NoPageCall ==
    [handler |-> "none", query |-> [page |-> Absent, limit |-> Absent],
     page |-> 0, limit |-> 0, offset |-> 0, status |-> 0,
     pagination |-> NoPagination]

NoPayCall == [param |-> <<>>, serviceErr |-> "", called |-> 0, out |-> <<>>]

HttpIdle == pgOut = NoPageCall /\ payOut = NoPayCall

AdminIdle == MenuIdle /\ RoleMenuIdle /\ MasterIdle /\ HttpIdle

-----------------------------------------------------------------------------
(* Initial state *)

Init ==
    /\ userRoles \in UserRoleChoices
    /\ settings \in SettingChoices
    /\ billings = <<>>
    /\ links = <<>>
    /\ pc = [r \in Reqs |-> "idle"]
    /\ req = [r \in Reqs |-> NoRequest]
    /\ users = [r \in Reqs |-> <<>>]
    /\ setts = [r \in Reqs |-> <<>>]
    /\ idx = [r \in Reqs |-> 1]
    /\ newBillings = [r \in Reqs |-> <<>>]
    /\ newLinks = [r \in Reqs |-> <<>>]
    /\ resp = [r \in Reqs |-> NoCounts]
    /\ status = [r \in Reqs |-> 0]
    /\ serviceErr = [r \in Reqs |-> ""]
    /\ calls = [r \in Reqs |-> <<>>]
    /\ attempts = [r \in Reqs |-> <<>>]
    /\ during = [r \in Reqs |-> {}]
    /\ report = [status |-> 0, rows |-> <<>>, err |-> FALSE]
    /\ aggCalls = 0
    /\ lookup = NoLookup
    /\ bIn = [n |-> 0, failAt |-> 0]
    /\ bOut = [done |-> FALSE]
    /\ AdminIdle

-----------------------------------------------------------------------------
(* Bulk generation, one action per step between storage calls *)

\* Mutant: the handler takes the all-users path whatever user_ids holds.
BindIgnoreIds(r, ids, m, y) ==
    LET body == [user_ids |-> ids, month |-> m, year |-> y]
    IN  /\ pc[r] = "idle"
        /\ \A q \in Reqs : q < r => pc[q] # "idle"
        /\ req' = [req EXCEPT ![r] = body]
        /\ during' = [during EXCEPT ![r] = InFlight]
        /\ IF ~ValidRequest(body)
           THEN /\ Finish(r, 400)
                /\ UNCHANGED <<users, resp, serviceErr>>
           ELSE /\ pc' = [pc EXCEPT ![r] = "resolve"]
                /\ UNCHANGED <<users, resp, status, serviceErr>>
        /\ UNCHANGED <<setts, idx, newBillings, newLinks, calls, attempts>>
        /\ UNCHANGED <<storageVars, aggVars, batchVars, lookup, adminVars>>

\* CreateBulkMonthlyBillings (handler): bind the body; reject it with 400, or
\* enter the service with the supplied identifiers, or with none.
\* Requests are numbered in their order of arrival.
Bind(r, ids, m, y) ==
    LET body == [user_ids |-> ids, month |-> m, year |-> y]
    IN  /\ pc[r] = "idle"
        /\ \A q \in Reqs : q < r => pc[q] # "idle"
        /\ req' = [req EXCEPT ![r] = body]
        /\ during' = [during EXCEPT ![r] = InFlight]
        /\ IF ~ValidRequest(body)
           THEN /\ Finish(r, 400)
                /\ UNCHANGED <<users, resp, serviceErr>>
           ELSE IF Len(ids) > 0
           THEN /\ users' = [users EXCEPT ![r] = ids]
                /\ resp' = [resp EXCEPT ![r].total_users = Len(ids)]
                /\ pc' = [pc EXCEPT ![r] = "load"]
                /\ UNCHANGED <<status, serviceErr>>
           ELSE /\ pc' = [pc EXCEPT ![r] = "resolve"]
                /\ UNCHANGED <<users, resp, status, serviceErr>>
        /\ UNCHANGED <<setts, idx, newBillings, newLinks, calls, attempts>>
        /\ UNCHANGED <<storageVars, aggVars, batchVars, lookup, adminVars>>

\* CreateBulkMonthlyBillingsForAllUsers: resolve the occupant users.
ResolveUsers(r, fail) ==
    /\ pc[r] = "resolve"
    /\ calls' = [calls EXCEPT ![r] = Append(@, "GetUsersWithPenghuniRole")]
    /\ IF fail
       THEN /\ Return(r, "GetUsersWithPenghuniRole")
            /\ UNCHANGED <<users, resp>>
       ELSE /\ users' = [users EXCEPT ![r] = GetUsersWithPenghuniRole]
            /\ resp' = [resp EXCEPT ![r].total_users =
                                        Len(GetUsersWithPenghuniRole)]
            /\ pc' = [pc EXCEPT ![r] = "load"]
            /\ UNCHANGED <<status, serviceErr>>
    /\ UNCHANGED <<req, setts, idx, newBillings, newLinks, attempts, during>>
    /\ UNCHANGED <<storageVars, aggVars, batchVars, lookup, adminVars>>

\* Load the active monthly settings.
LoadSettings(r, fail) ==
    /\ pc[r] = "load"
    /\ calls' = [calls EXCEPT
                   ![r] = Append(@, "GetActiveMonthlySettingBillings")]
    /\ IF fail
       THEN /\ Return(r, "GetActiveMonthlySettingBillings")
            /\ UNCHANGED setts
       ELSE /\ setts' = [setts EXCEPT ![r] = GetActiveMonthlySettingBillings]
            /\ pc' = [pc EXCEPT ![r] = "generate"]
            /\ UNCHANGED <<status, serviceErr>>
    /\ UNCHANGED <<req, users, idx, newBillings, newLinks, resp, attempts,
                   during>>
    /\ UNCHANGED <<storageVars, aggVars, batchVars, lookup, adminVars>>

\* Mutant: a pair whose construction fails ends the loop.
GeneratePairAbort(r) ==
    /\ pc[r] = "generate"
    /\ idx[r] <= NumPairs(r)
    /\ LET u == PairUser(r, idx[r])
           s == PairSetting(r, idx[r])
           ok == CanConstruct(u)
       IN  /\ attempts' = [attempts EXCEPT ![r] = Append(@, <<u, s.id>>)]
           /\ resp' = [resp EXCEPT ![r] = CountPair(@, ok)]
           /\ newBillings' =
                 [newBillings EXCEPT ![r] =
                     IF ok THEN Append(@, NewBilling(u, s, req[r].month,
                                                     req[r].year))
                     ELSE @]
           /\ newLinks' = [newLinks EXCEPT ![r] =
                              IF ok THEN Append(@, NewLink(u)) ELSE @]
           /\ idx' = [idx EXCEPT ![r] = IF ok THEN @ + 1 ELSE NumPairs(r) + 1]
    /\ UNCHANGED <<pc, req, users, setts, status, serviceErr, calls, during>>
    /\ UNCHANGED <<storageVars, aggVars, batchVars, lookup, adminVars>>

\* One iteration of the pair loop: construct the Billing and its link, or
\* count the pair as failed and go on.
GeneratePair(r) ==
    /\ pc[r] = "generate"
    /\ idx[r] <= NumPairs(r)
    /\ LET u == PairUser(r, idx[r])
           s == PairSetting(r, idx[r])
           ok == CanConstruct(u)
       IN  /\ attempts' = [attempts EXCEPT ![r] = Append(@, <<u, s.id>>)]
           /\ resp' = [resp EXCEPT ![r] = CountPair(@, ok)]
           /\ newBillings' =
                 [newBillings EXCEPT ![r] =
                     IF ok THEN Append(@, NewBilling(u, s, req[r].month,
                                                     req[r].year))
                     ELSE @]
           /\ newLinks' = [newLinks EXCEPT ![r] =
                              IF ok THEN Append(@, NewLink(u)) ELSE @]
    /\ idx' = [idx EXCEPT ![r] = @ + 1]
    /\ UNCHANGED <<pc, req, users, setts, status, serviceErr, calls, during>>
    /\ UNCHANGED <<storageVars, aggVars, batchVars, lookup, adminVars>>

-----------------------------------------------------------------------------
(* Bulk persistence *)

\* Mutant: an insert that skips a row whose (user, setting, month, year) is
\* already in the table, as under a uniqueness guard.
CreateBulkBillingsUnique(rows, failAt) ==
    LET fresh == SelectSeq(rows, LAMBDA b :
                    \A i \in 1..Len(billings) :
                        ~(/\ billings[i].user = b.user
                          /\ billings[i].setting = b.setting
                          /\ billings[i].bulan = b.bulan
                          /\ billings[i].tahun = b.tahun))
    IN  CreateInBatches(fresh, failAt)

\* CreateBulkBillings: r.db.CreateInBatches(billings, 100).Error
CreateBulkBillings(rows, failAt) == CreateInBatches(rows, failAt)

\* CreateBulkBillingProfileLinks: r.db.CreateInBatches(links, 100).Error
CreateBulkBillingProfileLinks(rows, failAt) == CreateInBatches(rows, failAt)

\* The INSERT gives each row the next identifier of the table; gorm writes
\* it back into the record.  by: the request that created the row.
WithIds(rows, r) ==
    [i \in 1..Len(rows) |->
        [rows[i] EXCEPT !.id = Len(billings) + i] @@ [by |-> r]]

\* The link of the i-th constructed Billing refers to its identifier.
LinkRows(r) ==
    [i \in 1..Len(newBillings[r]) |->
        [billing |-> newBillings[r][i].id,
         profile |-> newLinks[r][i].profile,
         by |-> r]]

\* The pair loop is over.  With nothing constructed the service returns its
\* counters without a persistence call; otherwise it inserts the Billings.
PersistBillings(r, failAt) ==
    /\ pc[r] = "generate"
    /\ idx[r] > NumPairs(r)
    /\ IF Len(newBillings[r]) = 0
       THEN /\ failAt = 0
            /\ Return(r, "")
            /\ UNCHANGED <<billings, newBillings, calls>>
       ELSE LET out == CreateBulkBillings(newBillings[r], failAt)
                stored == WithIds(out.persisted, r)
            IN  /\ failAt \in 0..NumBatches(Len(newBillings[r]))
                /\ calls' = [calls EXCEPT
                               ![r] = Append(@, "CreateBulkBillings")]
                /\ billings' = billings \o stored
                /\ IF out.ok
                   THEN /\ newBillings' =
                             [newBillings EXCEPT
                                ![r] = [i \in 1..Len(@) |->
                                          [@[i] EXCEPT
                                              !.id = Len(billings) + i]]]
                        /\ pc' = [pc EXCEPT ![r] = "links"]
                        /\ UNCHANGED <<status, serviceErr>>
                   ELSE /\ Return(r, "CreateBulkBillings")
                        /\ UNCHANGED newBillings
    /\ UNCHANGED <<userRoles, settings, links>>
    /\ UNCHANGED <<req, users, setts, idx, newLinks, resp, attempts, during>>
    /\ UNCHANGED <<aggVars, batchVars, lookup, adminVars>>

\* Insert the links of the Billings just inserted, then answer.
PersistLinks(r, failAt) ==
    /\ pc[r] = "links"
    /\ failAt \in 0..NumBatches(Len(newLinks[r]))
    /\ LET out == CreateBulkBillingProfileLinks(LinkRows(r), failAt)
       IN  /\ links' = links \o out.persisted
           /\ Return(r, IF out.ok THEN ""
                        ELSE "CreateBulkBillingProfileLinks")
    /\ calls' = [calls EXCEPT
                   ![r] = Append(@, "CreateBulkBillingProfileLinks")]
    /\ UNCHANGED <<userRoles, settings, billings>>
    /\ UNCHANGED <<req, users, setts, idx, newBillings, newLinks, resp,
                   attempts, during>>
    /\ UNCHANGED <<aggVars, batchVars, lookup, adminVars>>

-----------------------------------------------------------------------------
(* Aggregation (design document 4.5) *)

IsOccupant(u) ==
    /\ u \in UserTable
    /\ \E role \in RoleIds : <<u, role>> \in userRoles
                              /\ RoleType(role) = "penghuni"

BillingById(id) == billings[CHOOSE i \in 1..Len(billings) : billings[i].id = id]

\* The Billing rows of occupant users, reached through their profile link.
BillingPenghuniRows ==
    LET mine == SelectSeq(links, LAMBDA l :
                   /\ IsOccupant(l.profile)
                   /\ \E i \in 1..Len(billings) : billings[i].id = l.billing)
    IN  [i \in 1..Len(mine) |->
            [user_id |-> mine[i].profile,
             bulan |-> BillingById(mine[i].billing).bulan,
             tahun |-> BillingById(mine[i].billing).tahun,
             nominal |-> BillingById(mine[i].billing).nominal]]

SameKey(a, b) ==
    a.user_id = b.user_id /\ a.bulan = b.bulan /\ a.tahun = b.tahun

\* Mutant: no grouping, every retrieved row is an output row.
AggregateNoGroup(rows, out) == out \o rows

\* Mutant: a later row of a group replaces the sum instead of adding to it.
RECURSIVE AggregateLastWins(_, _)
AggregateLastWins(rows, out) ==
    IF rows = <<>> THEN out
    ELSE LET row == Head(rows)
             hit == {i \in 1..Len(out) : SameKey(out[i], row)}
         IN  IF hit = {}
             THEN AggregateLastWins(Tail(rows), Append(out, row))
             ELSE AggregateLastWins(Tail(rows),
                     [out EXCEPT ![CHOOSE i \in hit : TRUE].nominal =
                                     row.nominal])

\* Rows are taken in order; a row whose (user, month, year) was seen before
\* adds its nominal to that output row, any other row opens a new one.
RECURSIVE Aggregate(_, _)
Aggregate(rows, out) ==
    IF rows = <<>> THEN out
    ELSE LET row == Head(rows)
             hit == {i \in 1..Len(out) : SameKey(out[i], row)}
         IN  IF hit = {}
             THEN Aggregate(Tail(rows), Append(out, row))
             ELSE Aggregate(Tail(rows),
                     [out EXCEPT ![CHOOSE i \in hit : TRUE].nominal =
                                     @ + row.nominal])

\* Mutant: the aggregation writes each group's sum back into its Billing rows.
GetBillingPenghuniWriteBack(fail) ==
    LET results == IF fail THEN <<>> ELSE Aggregate(BillingPenghuniRows, <<>>)
        mine(i) == {l \in 1..Len(links) :
                       /\ links[l].billing = billings[i].id
                       /\ IsOccupant(links[l].profile)}
        sumOf(i) ==
            LET l == CHOOSE x \in mine(i) : TRUE
                k == CHOOSE x \in 1..Len(results) :
                        /\ results[x].user_id = links[l].profile
                        /\ results[x].bulan = billings[i].bulan
                        /\ results[x].tahun = billings[i].tahun
            IN  results[k].nominal
    IN  /\ aggCalls < MaxAggCalls
        /\ aggCalls' = aggCalls + 1
        /\ report' = [status |-> IF fail THEN 500 ELSE 200,
                      rows |-> results, err |-> fail]
        /\ billings' = IF fail THEN billings
                       ELSE [i \in 1..Len(billings) |->
                                IF mine(i) = {} THEN billings[i]
                                ELSE [billings[i] EXCEPT
                                         !.nominal = sumOf(i)]]
        /\ UNCHANGED <<userRoles, settings, links>>
        /\ UNCHANGED <<reqVars, batchVars, lookup, adminVars>>

\* Mutant: the handler answers an empty result with 404.
GetBillingPenghuniStatusEmptyFails(err, results) ==
    IF err THEN 500 ELSE IF results = <<>> THEN 404 ELSE 200

\* if err != nil: 500; otherwise 200 with the results, whatever they are.
GetBillingPenghuniStatus(err, results) == IF err THEN 500 ELSE 200

\* GetBillingPenghuni (handler and service): one read, then 200 with the
\* aggregated list, or 500 when the read fails.
GetBillingPenghuni(fail) ==
    LET results == IF fail THEN <<>> ELSE Aggregate(BillingPenghuniRows, <<>>)
    IN  /\ aggCalls < MaxAggCalls
        /\ aggCalls' = aggCalls + 1
        /\ report' = [status |-> GetBillingPenghuniStatus(fail, results),
                      rows |-> results, err |-> fail]
    /\ UNCHANGED <<storageVars, reqVars, batchVars, lookup, adminVars>>

-----------------------------------------------------------------------------
(* Specification of the service *)

Next ==
    \/ \E r \in Reqs, ids \in UserIdLists, p \in Periods :
          Bind(r, ids, p[1], p[2])
    \/ \E r \in Reqs, fail \in BOOLEAN : ResolveUsers(r, fail)
    \/ \E r \in Reqs, fail \in BOOLEAN : LoadSettings(r, fail)
    \/ \E r \in Reqs : GeneratePair(r)
    \/ \E r \in Reqs, failAt \in 0..1 : PersistBillings(r, failAt)
    \/ \E r \in Reqs, failAt \in 0..1 : PersistLinks(r, failAt)
    \/ \E fail \in BOOLEAN : GetBillingPenghuni(fail)

Spec == Init /\ [][Next]_vars

-----------------------------------------------------------------------------
(* The service together with the lookup of one Billing by identifier *)

LookupIds == {1, 2}

\* Mutant: FirstOrCreate in place of First, which inserts the row it misses.
GetBillingByIDFirstOrCreate(id) ==
    LET hit == {i \in 1..Len(billings) : billings[i].id = id}
    IN  /\ lookup' = [id |-> id, found |-> TRUE,
                      nominal |-> IF hit = {} THEN 0
                                  ELSE BillingById(id).nominal]
        /\ billings' = IF hit = {}
                       THEN Append(billings,
                                   [id |-> id, bulan |-> 0, tahun |-> 0,
                                    nominal |-> 0, user |-> 0, setting |-> 0,
                                    by |-> 0])
                       ELSE billings
        /\ UNCHANGED <<userRoles, settings, links>>
        /\ UNCHANGED <<reqVars, aggVars, batchVars, adminVars>>

\* GetBillingByID: r.db.Where("id = ?", id).First(&billing); the row, or the
\* error of First when there is none.
GetBillingByID(id) ==
    LET hit == {i \in 1..Len(billings) : billings[i].id = id}
    IN  /\ lookup' = [id |-> id, found |-> hit # {},
                      nominal |-> IF hit = {} THEN 0
                                  ELSE BillingById(id).nominal]
        /\ UNCHANGED <<storageVars, reqVars, aggVars, batchVars, adminVars>>

NextCore ==
    \/ Next
    \/ \E id \in LookupIds : GetBillingByID(id)

SpecCore == Init /\ [][NextCore]_vars

-----------------------------------------------------------------------------
(* Batch scenario: CreateInBatches on lists of up to MaxRows records *)

MaxFailAt == 3

InitBatch ==
    /\ userRoles = {<<1, 1>>}
    /\ settings = DeadSettings
    /\ billings = <<>>
    /\ links = <<>>
    /\ pc = [r \in Reqs |-> "idle"]
    /\ req = [r \in Reqs |-> NoRequest]
    /\ users = [r \in Reqs |-> <<>>]
    /\ setts = [r \in Reqs |-> <<>>]
    /\ idx = [r \in Reqs |-> 1]
    /\ newBillings = [r \in Reqs |-> <<>>]
    /\ newLinks = [r \in Reqs |-> <<>>]
    /\ resp = [r \in Reqs |-> NoCounts]
    /\ status = [r \in Reqs |-> 0]
    /\ serviceErr = [r \in Reqs |-> ""]
    /\ calls = [r \in Reqs |-> <<>>]
    /\ attempts = [r \in Reqs |-> <<>>]
    /\ during = [r \in Reqs |-> {}]
    /\ report = [status |-> 0, rows |-> <<>>, err |-> FALSE]
    /\ aggCalls = 0
    /\ lookup = NoLookup
    /\ bIn \in [n : 0..MaxRows, failAt : 0..MaxFailAt]
    /\ bOut = [done |-> FALSE]
    /\ AdminIdle

\* The records of the scenario are numbered 1..n in list order.
BatchRows == [i \in 1..bIn.n |-> i]

RunBatch ==
    /\ bOut.done = FALSE
    /\ bOut' = [done |-> TRUE] @@ CreateBulkBillings(BatchRows, bIn.failAt)
    /\ UNCHANGED <<storageVars, reqVars, aggVars, bIn, lookup, adminVars>>

NextBatch == RunBatch

SpecBatch == InitBatch /\ [][NextBatch]_vars

-----------------------------------------------------------------------------
(* Path parameters: strconv.ParseUint(s, 10, 32) on strings of characters *)

\* A string is a sequence of one-character strings; a number that was
\* parsed is kept as its numeral without leading zeros, since a uint32 does
\* not fit the integers of the checker.
Digits == <<"0", "1", "2", "3", "4", "5", "6", "7", "8", "9">>

IsDigit(c) == \E i \in 1..10 : Digits[i] = c

DigitValue(c) == (CHOOSE i \in 1..10 : Digits[i] = c) - 1

RECURSIVE StripZeros(_)
StripZeros(s) ==
    IF Len(s) > 1 /\ Head(s) = "0" THEN StripZeros(Tail(s)) ELSE s

\* a <= b for two numerals of the same length.
RECURSIVE NumeralLeq(_, _)
NumeralLeq(a, b) ==
    IF a = <<>> THEN TRUE
    ELSE IF DigitValue(Head(a)) < DigitValue(Head(b)) THEN TRUE
    ELSE IF DigitValue(Head(a)) > DigitValue(Head(b)) THEN FALSE
    ELSE NumeralLeq(Tail(a), Tail(b))

\* 1<<32 - 1
MaxUint32 == <<"4", "2", "9", "4", "9", "6", "7", "2", "9", "5">>

FitsUint32(n) ==
    \/ Len(n) < Len(MaxUint32)
    \/ Len(n) = Len(MaxUint32) /\ NumeralLeq(n, MaxUint32)

\* Mutant: the bit size is not checked.
ParseUint32AnySize(s) ==
    IF s = <<>> \/ \E i \in 1..Len(s) : ~IsDigit(s[i])
    THEN [ok |-> FALSE, num |-> <<"0">>, err |-> <<"invalid syntax">>]
    ELSE [ok |-> TRUE, num |-> StripZeros(s), err |-> <<>>]

\* strconv.ParseUint(s, 10, 32): digits only, no sign, at most 1<<32 - 1.
ParseUint32(s) ==
    IF s = <<>> \/ \E i \in 1..Len(s) : ~IsDigit(s[i])
    THEN [ok |-> FALSE, num |-> <<"0">>, err |-> <<"invalid syntax">>]
    ELSE IF ~FitsUint32(StripZeros(s))
    THEN [ok |-> FALSE, num |-> <<"0">>, err |-> <<"value out of range">>]
    ELSE [ok |-> TRUE, num |-> StripZeros(s), err |-> <<>>]

\* utils.GetIDParam: c.Param("id") through ParseUint.
GetIDParam(param) == ParseUint32(param)

\* The value of a numeral of at most nine digits.
RECURSIVE NumeralValue(_)
NumeralValue(n) ==
    IF n = <<>> THEN 0
    ELSE 10 * NumeralValue(SubSeq(n, 1, Len(n) - 1)) + DigitValue(n[Len(n)])

\* Values of the :id segment of a path.
PathParams ==
    {<<"a", "b", "c">>, <<"-", "1">>, <<"+", "1">>, <<"1", ".", "5">>,
     <<"0">>, <<"0", "0">>, <<"1">>, <<"2">>, <<"0", "0", "7">>, <<"4", "2">>,
     <<"4", "2", "9", "4", "9", "6", "7", "2", "9", "5">>,
     <<"4", "2", "9", "4", "9", "6", "7", "2", "9", "6">>,
     <<"9", "9", "9", "9", "9", "9", "9", "9", "9", "9", "9">>}

-----------------------------------------------------------------------------
(* GET /menus/user/:id *)

\* An error is the chain of its messages, outermost first; strings.Contains
\* on err.Error() finds a message anywhere in the chain.
ErrContains(err, msg) == \E i \in 1..Len(err) : err[i] = msg

MenuRow(id, kode, published) ==
    [id |-> id, kode_menu |-> kode, published_at |-> published]

\* The menus of the users of the table; no other user has any.
MenuStoreChoices ==
    [UserTable -> {<<>>,
                   <<MenuRow(1, "master-data", "nil")>>,
                   <<MenuRow(1, "master-data", "nil"),
                     MenuRow(3, "user-management", "2025-10-23T15:16:28Z")>>}]

\* menuService.GetMenusByUserID: the user ID must be positive; then one
\* query, whose error is passed on.
MenuServiceGetMenusByUserID(num, fail) ==
    IF num = <<"0">>
    THEN [menus |-> <<>>, err |-> <<"invalid user ID">>]
    ELSE IF fail
    THEN [menus |-> <<>>, err |-> <<"failed to get menus", "storage">>]
    ELSE IF Len(num) <= 9 /\ NumeralValue(num) \in DOMAIN menuStore
    THEN [menus |-> menuStore[NumeralValue(num)], err |-> <<>>]
    ELSE [menus |-> <<>>, err |-> <<>>]

APIResponse(code, message, data, err) ==
    [code |-> code, success |-> code < 400, message |-> message,
     data |-> data, error |-> err]

\* The response entry of one menu; the publication time is formatted when
\* there is one.
MenuResponse(menu) ==
    [id |-> menu.id, kode_menu |-> menu.kode_menu,
     published_at |-> IF menu.published_at = "nil" THEN "nil"
                      ELSE <<"formatted", menu.published_at>>]

\* Mutant: a user without menus is answered 404, as the annotation of the
\* handler has it.
GetMenusByUserIDWritesNotFound(param, fail) ==
    LET parsed == GetIDParam(param)
        res == MenuServiceGetMenusByUserID(parsed.num, fail)
    IN  IF ~parsed.ok
        THEN <<APIResponse(400, "Invalid user ID", "none", parsed.err)>>
        ELSE IF res.err # <<>>
        THEN IF ErrContains(res.err, "invalid user ID")
             THEN <<APIResponse(400, "Invalid user ID", "none", res.err)>>
             ELSE <<APIResponse(500, "Failed to get menus", "none", res.err)>>
        ELSE IF Len(res.menus) = 0
        THEN <<APIResponse(404, "No menus found", "none", <<>>)>>
        ELSE <<APIResponse(200, "Menus retrieved successfully",
                           [i \in 1..Len(res.menus) |->
                               MenuResponse(res.menus[i])], <<>>)>>

\* MenuHandler.GetMenusByUserID: the responses it writes, in order; every
\* branch writes one and returns.
GetMenusByUserIDWrites(param, fail) ==
    LET parsed == GetIDParam(param)
        res == MenuServiceGetMenusByUserID(parsed.num, fail)
    IN  IF ~parsed.ok
        THEN <<APIResponse(400, "Invalid user ID", "none", parsed.err)>>
        ELSE IF res.err # <<>>
        THEN IF ErrContains(res.err, "invalid user ID")
             THEN <<APIResponse(400, "Invalid user ID", "none", res.err)>>
             ELSE <<APIResponse(500, "Failed to get menus", "none", res.err)>>
        ELSE IF Len(res.menus) = 0
        THEN <<APIResponse(200, "No menus found for this user", <<>>, <<>>)>>
        ELSE <<APIResponse(200, "Menus retrieved successfully",
                           [i \in 1..Len(res.menus) |->
                               MenuResponse(res.menus[i])], <<>>)>>

\* Every billing variable at its value before any request.
BillingIdle ==
    /\ userRoles = {<<1, 1>>}
    /\ settings = DeadSettings
    /\ billings = <<>>
    /\ links = <<>>
    /\ pc = [r \in Reqs |-> "idle"]
    /\ req = [r \in Reqs |-> NoRequest]
    /\ users = [r \in Reqs |-> <<>>]
    /\ setts = [r \in Reqs |-> <<>>]
    /\ idx = [r \in Reqs |-> 1]
    /\ newBillings = [r \in Reqs |-> <<>>]
    /\ newLinks = [r \in Reqs |-> <<>>]
    /\ resp = [r \in Reqs |-> NoCounts]
    /\ status = [r \in Reqs |-> 0]
    /\ serviceErr = [r \in Reqs |-> ""]
    /\ calls = [r \in Reqs |-> <<>>]
    /\ attempts = [r \in Reqs |-> <<>>]
    /\ during = [r \in Reqs |-> {}]
    /\ report = [status |-> 0, rows |-> <<>>, err |-> FALSE]
    /\ aggCalls = 0
    /\ lookup = NoLookup
    /\ bIn = [n |-> 0, failAt |-> 0]
    /\ bOut = [done |-> FALSE]

billingVars == <<storageVars, reqVars, aggVars, batchVars, lookup>>

InitMenu ==
    /\ BillingIdle
    /\ RoleMenuIdle
    /\ MasterIdle
    /\ HttpIdle
    /\ menuStore \in MenuStoreChoices
    /\ menuReq = NoMenuRequest
    /\ menuOut = <<>>

\* One request of GET /menus/user/:id.
GetMenusByUserID(param, fail) ==
    /\ menuReq' = [param |-> param, fail |-> fail]
    /\ menuOut' = GetMenusByUserIDWrites(param, fail)
    /\ UNCHANGED <<billingVars, menuStore, roleMenuVars, masterVars, httpVars>>

NextMenu == \E param \in PathParams, fail \in BOOLEAN :
                GetMenusByUserID(param, fail)

SpecMenu == InitMenu /\ [][NextMenu]_vars

-----------------------------------------------------------------------------
(* Role menus: RoleMenuRepository.Delete *)

RoleMenuIds == {1, 2}

\* Stores whose association rows refer to role menus that exist.
RoleMenuStores ==
    {st \in [menus : SUBSET RoleMenuIds,
             masterLinks : SUBSET {<<1, 1>>, <<1, 2>>, <<2, 1>>},
             roleLinks : SUBSET {<<1, 1>>, <<2, 2>>}] :
        /\ \A l \in st.masterLinks : l[1] \in st.menus
        /\ \A l \in st.roleLinks : l[1] \in st.menus}

\* roleMenuRepository.Delete: two DELETE statements on the association
\* tables, whose errors are not read, then the DELETE of the role menu, whose
\* error is returned.  f1, f2, f3: the statement fails and deletes nothing.
RoleMenuDelete(st, id, f1, f2, f3) ==
    LET s1 == IF f1 THEN st
              ELSE [st EXCEPT !.masterLinks = {l \in @ : l[1] # id}]
        s2 == IF f2 THEN s1
              ELSE [s1 EXCEPT !.roleLinks = {l \in @ : l[1] # id}]
        s3 == IF f3 THEN s2
              ELSE [s2 EXCEPT !.menus = @ \ {id}]
    IN  [store |-> s3, err |-> IF f3 THEN <<"storage">> ELSE <<>>]

InitRoleMenu ==
    /\ BillingIdle
    /\ MenuIdle
    /\ MasterIdle
    /\ HttpIdle
    /\ rmStore \in RoleMenuStores
    /\ rmCall = NoRoleMenuCall

\* One call of Delete(id).
DeleteRoleMenu(id, f1, f2, f3) ==
    LET out == RoleMenuDelete(rmStore, id, f1, f2, f3)
    IN  /\ rmStore' = out.store
        /\ rmCall' = [called |-> TRUE, id |-> id, err |-> out.err,
                      before |-> rmStore]
        /\ UNCHANGED <<billingVars, menuVars, masterVars, httpVars>>

NextRoleMenu ==
    \E id \in RoleMenuIds \cup {3}, f1, f2, f3 \in BOOLEAN :
        DeleteRoleMenu(id, f1, f2, f3)

SpecRoleMenu == InitRoleMenu /\ [][NextRoleMenu]_vars

-----------------------------------------------------------------------------
(* Master menus: masterMenuService over masterMenuRepository *)

\* Tables to start from: the codes of their rows are distinct.
MasterRowChoices ==
    {{},
     {MasterRow(1, "A", "Dashboard")},
     {MasterRow(1, "A", "Dashboard"), MasterRow(2, "B", "Billing")}}

CreateBody(nama, kode) ==
    [document_id |-> Nil, nama_menu |-> nama, kode_menu |-> kode,
     urutan_menu |-> Nil, is_active |-> Nil, locale |-> Nil]

CreateBodies ==
    {CreateBody("Dashboard", "A"), CreateBody("Billing", "B"),
     CreateBody("", "A"), CreateBody("Dashboard", ""),
     [CreateBody("Users", "C") EXCEPT !.document_id = "menu003"]}

NoUpdate ==
    [document_id |-> Nil, nama_menu |-> Nil, kode_menu |-> Nil,
     urutan_menu |-> Nil, is_active |-> Nil, locale |-> Nil]

UpdateBodies ==
    {NoUpdate,
     [NoUpdate EXCEPT !.kode_menu = "A"],
     [NoUpdate EXCEPT !.kode_menu = "B"],
     [NoUpdate EXCEPT !.nama_menu = "Home"],
     [NoUpdate EXCEPT !.nama_menu = "Home", !.kode_menu = "B",
                      !.is_active = "false"]}

UpdateIds == {0, 1, 3}
DeleteIds == {0, 1, 2}

MasterInFlight == {r \in MasterReqs : mmReq[r].pc \notin {"idle", "done"}}

\* masterMenuRepository.GetByID: First by primary key.
MasterGetByID(id, fail) ==
    IF fail THEN [row |-> NoRow, err |-> "storage error"]
    ELSE IF \E row \in mmRows : row.id = id
    THEN [row |-> CHOOSE row \in mmRows : row.id = id, err |-> ""]
    ELSE [row |-> NoRow, err |-> "record not found"]

\* masterMenuRepository.GetByKodeMenu: Where("kode_menu = ?").First, the
\* match of least id.
MasterGetByKodeMenu(kode, fail) ==
    LET hits == {row \in mmRows : row.kode_menu = kode}
    IN  IF fail THEN [row |-> NoRow, err |-> "storage error"]
        ELSE IF hits # {}
        THEN [row |-> CHOOSE row \in hits :
                          \A other \in hits : row.id <= other.id,
              err |-> ""]
        ELSE [row |-> NoRow, err |-> "record not found"]

\* if req.X != nil { masterMenu.X = *req.X }
ApplyField(m, body, f) ==
    IF body[f] # Nil THEN [m EXCEPT ![f] = body[f]] ELSE m

\* The assignments of UpdateMasterMenu before the kode_menu check.
ApplyBeforeKode(m, body) ==
    ApplyField(ApplyField(m, body, "document_id"), body, "nama_menu")

\* The assignments of UpdateMasterMenu after the kode_menu check.
ApplyAfterKode(m, body) ==
    ApplyField(ApplyField(ApplyField(m, body, "urutan_menu"),
                          body, "is_active"), body, "locale")

\* The request returns err ("" for nil) to its caller.
MasterReturn(r, err) ==
    mmReq' = [mmReq EXCEPT ![r].pc = "done", ![r].err = err]

\* A request enters the service.  Requests are numbered in their order of
\* arrival.
MasterEnter(r, op, id, body, at, err) ==
    /\ mmReq[r].pc = "idle"
    /\ \A q \in MasterReqs : q < r => mmReq[q].pc # "idle"
    /\ mmReq' = [mmReq EXCEPT ![r] =
                    [op |-> op, id |-> id, body |-> body, pc |-> at,
                     m |-> NoRow, err |-> err, before |-> mmRows,
                     during |-> MasterInFlight]]
    /\ UNCHANGED <<mmRows, mmNextId, mmClock>>
    /\ UNCHANGED <<billingVars, menuVars, roleMenuVars, httpVars>>

\* CreateMasterMenu: the required fields.
StartCreateMasterMenu(r, body) ==
    IF body.nama_menu = ""
    THEN MasterEnter(r, "create", 0, body, "done", "nama_menu is required")
    ELSE IF body.kode_menu = ""
    THEN MasterEnter(r, "create", 0, body, "done", "kode_menu is required")
    ELSE MasterEnter(r, "create", 0, body, "check", "")

\* CreateMasterMenu: existing, _ := GetByKodeMenu(req.KodeMenu); the error
\* of the lookup is dropped.
CheckKodeForCreate(r, fail) ==
    LET body == mmReq[r].body
        existing == MasterGetByKodeMenu(body.kode_menu, fail).row
    IN  /\ mmReq[r].pc = "check" /\ mmReq[r].op = "create"
        /\ IF existing # NoRow
           THEN MasterReturn(r, "kode_menu already exists")
           ELSE mmReq' = [mmReq EXCEPT
                  ![r].pc = "write",
                  ![r].m = [id |-> 0,
                            document_id |-> IF body.document_id # Nil
                                            THEN body.document_id ELSE "",
                            nama_menu |-> body.nama_menu,
                            kode_menu |-> body.kode_menu,
                            urutan_menu |-> body.urutan_menu,
                            is_active |-> body.is_active,
                            locale |-> body.locale,
                            updated_at |-> 0]]
        /\ UNCHANGED <<mmRows, mmNextId, mmClock>>
        /\ UNCHANGED <<billingVars, menuVars, roleMenuVars, httpVars>>

\* CreateMasterMenu: masterMenuRepo.Create, an INSERT that takes the next
\* identifier.
CreateMasterMenuRow(r, fail) ==
    /\ mmReq[r].pc = "write" /\ mmReq[r].op = "create"
    /\ IF fail
       THEN /\ MasterReturn(r, "storage error")
            /\ UNCHANGED <<mmRows, mmNextId, mmClock>>
       ELSE LET row == [mmReq[r].m EXCEPT !.id = mmNextId,
                                          !.updated_at = mmClock + 1]
            IN  /\ mmRows' = mmRows \cup {row}
                /\ mmNextId' = mmNextId + 1
                /\ mmClock' = mmClock + 1
                /\ mmReq' = [mmReq EXCEPT ![r].pc = "done", ![r].err = "",
                                          ![r].m = row, ![r].id = row.id]
    /\ UNCHANGED <<billingVars, menuVars, roleMenuVars, httpVars>>

\* UpdateMasterMenu: the identifier.
StartUpdateMasterMenu(r, id, body) ==
    IF id = 0
    THEN MasterEnter(r, "update", id, body, "done", "invalid master menu ID")
    ELSE MasterEnter(r, "update", id, body, "get", "")

\* UpdateMasterMenu: GetByID, then the assignments up to the kode_menu check.
GetForUpdate(r, fail) ==
    LET got == MasterGetByID(mmReq[r].id, fail)
        body == mmReq[r].body
    IN  /\ mmReq[r].pc = "get" /\ mmReq[r].op = "update"
        /\ IF got.err # ""
           THEN MasterReturn(r, got.err)
           ELSE IF body.kode_menu # Nil
           THEN mmReq' = [mmReq EXCEPT
                  ![r].pc = "check",
                  ![r].m = ApplyBeforeKode(got.row, body)]
           ELSE mmReq' = [mmReq EXCEPT
                  ![r].pc = "write",
                  ![r].m = ApplyAfterKode(ApplyBeforeKode(got.row, body),
                                          body)]
        /\ UNCHANGED <<mmRows, mmNextId, mmClock>>
        /\ UNCHANGED <<billingVars, menuVars, roleMenuVars, httpVars>>

\* UpdateMasterMenu: existing, _ := GetByKodeMenu(*req.KodeMenu); a match
\* that is another record is a conflict.  The error of the lookup is dropped.
CheckKodeForUpdate(r, fail) ==
    LET body == mmReq[r].body
        existing == MasterGetByKodeMenu(body.kode_menu, fail).row
    IN  /\ mmReq[r].pc = "check" /\ mmReq[r].op = "update"
        /\ IF existing # NoRow /\ existing.id # mmReq[r].id
           THEN MasterReturn(r, "kode_menu already exists")
           ELSE mmReq' = [mmReq EXCEPT
                  ![r].pc = "write",
                  ![r].m = ApplyAfterKode(
                               [mmReq[r].m EXCEPT
                                   !.kode_menu = body.kode_menu], body)]
        /\ UNCHANGED <<mmRows, mmNextId, mmClock>>
        /\ UNCHANGED <<billingVars, menuVars, roleMenuVars, httpVars>>

\* UpdateMasterMenu: masterMenuRepo.Update, r.db.Save: every column of the
\* row of that id is written and updated_at is set; with no such row left,
\* the record is inserted.
SaveMasterMenuRow(r, fail) ==
    /\ mmReq[r].pc = "write" /\ mmReq[r].op = "update"
    /\ IF fail
       THEN /\ MasterReturn(r, "storage error")
            /\ UNCHANGED <<mmRows, mmClock>>
       ELSE LET row == [mmReq[r].m EXCEPT !.updated_at = mmClock + 1]
            IN  /\ mmRows' = {old \in mmRows : old.id # row.id} \cup {row}
                /\ mmClock' = mmClock + 1
                /\ mmReq' = [mmReq EXCEPT ![r].pc = "done", ![r].err = "",
                                          ![r].m = row]
    /\ UNCHANGED mmNextId
    /\ UNCHANGED <<billingVars, menuVars, roleMenuVars, httpVars>>

\* DeleteMasterMenu: the identifier.
StartDeleteMasterMenu(r, id) ==
    IF id = 0
    THEN MasterEnter(r, "delete", id, Nil, "done", "invalid master menu ID")
    ELSE MasterEnter(r, "delete", id, Nil, "get", "")

\* DeleteMasterMenu: the record must exist.
GetForDelete(r, fail) ==
    LET got == MasterGetByID(mmReq[r].id, fail)
    IN  /\ mmReq[r].pc = "get" /\ mmReq[r].op = "delete"
        /\ IF got.err # ""
           THEN MasterReturn(r, got.err)
           ELSE mmReq' = [mmReq EXCEPT ![r].pc = "write"]
        /\ UNCHANGED <<mmRows, mmNextId, mmClock>>
        /\ UNCHANGED <<billingVars, menuVars, roleMenuVars, httpVars>>

\* DeleteMasterMenu: masterMenuRepo.Delete, a DELETE by primary key.
DeleteMasterMenuRow(r, fail) ==
    /\ mmReq[r].pc = "write" /\ mmReq[r].op = "delete"
    /\ IF fail
       THEN /\ MasterReturn(r, "storage error")
            /\ UNCHANGED mmRows
       ELSE /\ mmRows' = {row \in mmRows : row.id # mmReq[r].id}
            /\ MasterReturn(r, "")
    /\ UNCHANGED <<mmNextId, mmClock>>
    /\ UNCHANGED <<billingVars, menuVars, roleMenuVars, httpVars>>

InitMaster ==
    /\ BillingIdle
    /\ MenuIdle
    /\ RoleMenuIdle
    /\ mmRows \in MasterRowChoices
    /\ mmNextId = Cardinality(mmRows) + 1
    /\ mmClock = 0
    /\ mmReq = [r \in MasterReqs |-> NoMasterRequest]
    /\ HttpIdle

NextMaster ==
    \/ \E r \in MasterReqs, body \in CreateBodies :
          StartCreateMasterMenu(r, body)
    \/ \E r \in MasterReqs, fail \in BOOLEAN : CheckKodeForCreate(r, fail)
    \/ \E r \in MasterReqs, fail \in BOOLEAN : CreateMasterMenuRow(r, fail)
    \/ \E r \in MasterReqs, id \in UpdateIds, body \in UpdateBodies :
          StartUpdateMasterMenu(r, id, body)
    \/ \E r \in MasterReqs, fail \in BOOLEAN : GetForUpdate(r, fail)
    \/ \E r \in MasterReqs, fail \in BOOLEAN : CheckKodeForUpdate(r, fail)
    \/ \E r \in MasterReqs, fail \in BOOLEAN : SaveMasterMenuRow(r, fail)
    \/ \E r \in MasterReqs, id \in DeleteIds : StartDeleteMasterMenu(r, id)
    \/ \E r \in MasterReqs, fail \in BOOLEAN : GetForDelete(r, fail)
    \/ \E r \in MasterReqs, fail \in BOOLEAN : DeleteMasterMenuRow(r, fail)

SpecMaster == InitMaster /\ [][NextMaster]_vars

-----------------------------------------------------------------------------
(* Paginated listings: GetAllMasterMenus, GetAllRoleMenus,
   utils.GetPaginationParams, utils.PaginatedSuccessResponse *)

\* Width of int and int64 in the model.  The program's is 64 bits; the
\* arithmetic below is the same two's complement arithmetic at this width.
IntBits == 9

MaxInt == 2 ^ (IntBits - 1) - 1
MinInt == -(2 ^ (IntBits - 1))

\* The int that a mathematical result is stored as.
WrapInt(x) == ((x - MinInt) % (2 ^ IntBits)) + MinInt

\* Go's / on integers truncates toward zero; b > 0.
GoDiv(a, b) == IF a >= 0 THEN a \div b ELSE -((-a) \div b)

\* strconv.Atoi: an optional sign and decimal digits.  A syntax error gives
\* 0; a value out of range gives the nearest int together with the error.
Atoi(s) ==
    LET signed == s # <<>> /\ Head(s) \in {"+", "-"}
        digits == IF signed THEN Tail(s) ELSE s
        neg == signed /\ Head(s) = "-"
        n == StripZeros(digits)
    IN  IF digits = <<>> \/ \E i \in 1..Len(digits) : ~IsDigit(digits[i])
        THEN [value |-> 0, err |-> "invalid syntax"]
        ELSE IF ~neg /\ (Len(n) > 4 \/ NumeralValue(n) > MaxInt)
        THEN [value |-> MaxInt, err |-> "value out of range"]
        ELSE IF neg /\ (Len(n) > 4 \/ NumeralValue(n) > -MinInt)
        THEN [value |-> MinInt, err |-> "value out of range"]
        ELSE [value |-> IF neg THEN -NumeralValue(n) ELSE NumeralValue(n),
              err |-> ""]

Present(text) == [present |-> TRUE, text |-> text]

\* c.Query(key): the empty string when the key is absent.
Query(q) == IF q.present THEN q.text ELSE <<>>

\* c.DefaultQuery(key, def): def only when the key is absent.
DefaultQuery(q, def) == IF q.present THEN q.text ELSE def

\* Values of ?page= and ?limit=.
QueryValues ==
    {Absent, Present(<<>>), Present(<<"a", "b", "c">>),
     Present(<<"0">>), Present(<<"-", "1">>), Present(<<"+", "2">>),
     Present(<<"1">>), Present(<<"2">>), Present(<<"1", "0">>),
     Present(<<"2", "7">>), Present(<<"1", "0", "0">>),
     Present(<<"1", "0", "1">>), Present(<<"2", "5", "5">>),
     Present(<<"2", "5", "6">>), Present(<<"9", "9", "9", "9", "9">>),
     Present(<<"-", "3", "0", "0">>)}

\* utils.GetPaginationParams
GetPaginationParams(pageQ, limitQ) ==
    LET p == Query(pageQ)
        l == Query(limitQ)
    IN  [page |-> IF p # <<>> /\ Atoi(p).err = "" /\ Atoi(p).value > 0
                  THEN Atoi(p).value ELSE 1,
         limit |-> IF l # <<>> /\ Atoi(l).err = "" /\ Atoi(l).value > 0
                      /\ Atoi(l).value <= 100
                   THEN Atoi(l).value ELSE 10]

\* MasterMenuHandler.GetAllMasterMenus: page, limit and offset.
MasterMenuPagination(pageQ, limitQ) ==
    LET page0 == Atoi(DefaultQuery(pageQ, <<"1">>)).value
        limit0 == Atoi(DefaultQuery(limitQ, <<"1", "0">>)).value
        page == IF page0 < 1 THEN 1 ELSE page0
        limit == IF limit0 < 1 \/ limit0 > 100 THEN 10 ELSE limit0
    IN  [page |-> page, limit |-> limit,
         offset |-> WrapInt((page - 1) * limit)]

\* RoleMenuHandler.GetAllRoleMenus: page, limit and offset.
RoleMenuPagination(pageQ, limitQ) ==
    LET page0 == Atoi(DefaultQuery(pageQ, <<"1">>)).value
        limit0 == Atoi(DefaultQuery(limitQ, <<"1", "0">>)).value
        page == IF page0 < 1 THEN 1 ELSE page0
        limit == IF limit0 < 1 \/ limit0 > 100 THEN 10 ELSE limit0
    IN  [page |-> page, limit |-> limit,
         offset |-> WrapInt((page - 1) * limit)]

\* int((total + int64(limit) - 1) / int64(limit))
TotalPages(total, limit) ==
    GoDiv(WrapInt(WrapInt(total + limit) - 1), limit)

\* utils.PaginatedSuccessResponse: the pagination object of the body.
PaginatedSuccessResponse(page, limit, total) ==
    [page |-> page, limit |-> limit, total |-> total,
     total_pages |-> TotalPages(total, limit)]

\* What a listing handler writes: 500 when the service fails, else the page.
ListingWrites(handler, pageQ, limitQ, p, total, fail) ==
    [handler |-> handler, query |-> [page |-> pageQ, limit |-> limitQ],
     page |-> p.page, limit |-> p.limit, offset |-> p.offset,
     status |-> IF fail THEN 500 ELSE 200,
     pagination |-> IF fail THEN NoPagination
                    ELSE PaginatedSuccessResponse(p.page, p.limit, total)]

\* Row counts the service reports.
ListTotals == {0, 1, 25}

InitPage ==
    /\ BillingIdle
    /\ MenuIdle
    /\ RoleMenuIdle
    /\ MasterIdle
    /\ HttpIdle

GetAllMasterMenus(pageQ, limitQ, total, fail) ==
    /\ pgOut' = ListingWrites("master-menus", pageQ, limitQ,
                              MasterMenuPagination(pageQ, limitQ),
                              total, fail)
    /\ UNCHANGED <<billingVars, menuVars, roleMenuVars, masterVars, payOut>>

GetAllRoleMenus(pageQ, limitQ, total, fail) ==
    /\ pgOut' = ListingWrites("role-menus", pageQ, limitQ,
                              RoleMenuPagination(pageQ, limitQ),
                              total, fail)
    /\ UNCHANGED <<billingVars, menuVars, roleMenuVars, masterVars, payOut>>

NextPage ==
    \/ \E pageQ \in QueryValues, limitQ \in QueryValues,
          total \in ListTotals, fail \in BOOLEAN :
          GetAllMasterMenus(pageQ, limitQ, total, fail)
    \/ \E pageQ \in QueryValues, limitQ \in QueryValues,
          total \in ListTotals, fail \in BOOLEAN :
          GetAllRoleMenus(pageQ, limitQ, total, fail)

SpecPage == InitPage /\ [][NextPage]_vars

\* PaginatedSuccessResponse by itself, on every limit a caller may pass
\* and every total that is an int64: the arguments are drawn at the start.
Limits == 1..100
Totals == 0..MaxInt

PaginatedCall(page, limit, total) ==
    [NoPageCall EXCEPT !.handler = "caller", !.page = page, !.limit = limit,
                       !.pagination = [NoPagination EXCEPT !.total = total]]

InitPaginated ==
    /\ BillingIdle
    /\ MenuIdle
    /\ RoleMenuIdle
    /\ MasterIdle
    /\ payOut = NoPayCall
    /\ pgOut \in {PaginatedCall(1, limit, total) :
                      limit \in Limits, total \in Totals}

RespondPaginated ==
    /\ pgOut.handler = "caller" /\ pgOut.status = 0
    /\ pgOut' = [pgOut EXCEPT
                    !.status = 200,
                    !.pagination = PaginatedSuccessResponse(
                                       pgOut.page, pgOut.limit,
                                       pgOut.pagination.total)]
    /\ UNCHANGED <<billingVars, menuVars, roleMenuVars, masterVars, payOut>>

NextPaginated == RespondPaginated

SpecPaginated == InitPaginated /\ [][NextPaginated]_vars

-----------------------------------------------------------------------------
(* POST /payments/billing/:id/link: PaymentHandler.CreatePaymentLink *)

\* What paymentService.CreatePaymentLink returns as its error ("" for nil).
PaymentErrors ==
    {"", "billing record not found", "invalid billing nominal",
     "record not found", "billing record not found: 7",
     "Billing record not found", "failed to create payment link",
     "doku: request timed out"}

\* gin.H{"error": ..., "message": ...} written with a status code; for 200
\* the body is the service's response.
PaymentAnswer(code, error, message) ==
    [code |-> code, error |-> error, message |-> message]

\* Mutant: only the missing billing record is answered 404.
CreatePaymentLinkWritesNotFoundOnly(param, err) ==
    IF ~ParseUint32(param).ok
    THEN [called |-> 0,
          out |-> <<PaymentAnswer(400, "Invalid billing ID",
                                  "Billing ID must be a valid number")>>]
    ELSE IF err = "billing record not found"
    THEN [called |-> 1,
          out |-> <<PaymentAnswer(404, "Billing not found", err)>>]
    ELSE IF err # ""
    THEN [called |-> 1,
          out |-> <<PaymentAnswer(500, "Failed to create payment link",
                                  "Internal server error")>>]
    ELSE [called |-> 1, out |-> <<PaymentAnswer(200, "", "")>>]

\* The calls of the service and the responses of one request, err being
\* what the service returns when it is called.
CreatePaymentLinkWrites(param, err) ==
    IF ~ParseUint32(param).ok
    THEN [called |-> 0,
          out |-> <<PaymentAnswer(400, "Invalid billing ID",
                                  "Billing ID must be a valid number")>>]
    ELSE IF err = "billing record not found"
            \/ err = "invalid billing nominal"
    THEN [called |-> 1,
          out |-> <<PaymentAnswer(404, "Billing not found", err)>>]
    ELSE IF err # ""
    THEN [called |-> 1,
          out |-> <<PaymentAnswer(500, "Failed to create payment link",
                                  "Internal server error")>>]
    ELSE [called |-> 1, out |-> <<PaymentAnswer(200, "", "")>>]

InitPayment ==
    /\ BillingIdle
    /\ MenuIdle
    /\ RoleMenuIdle
    /\ MasterIdle
    /\ HttpIdle

CreatePaymentLink(param, err) ==
    /\ payOut' = [param |-> param, serviceErr |-> err,
                  called |-> CreatePaymentLinkWrites(param, err).called,
                  out |-> CreatePaymentLinkWrites(param, err).out]
    /\ UNCHANGED <<billingVars, menuVars, roleMenuVars, masterVars, pgOut>>

NextPayment ==
    \E param \in PathParams, err \in PaymentErrors :
        CreatePaymentLink(param, err)

SpecPayment == InitPayment /\ [][NextPayment]_vars

-----------------------------------------------------------------------------
(* Vocabulary of the properties *)

Range(seq) == {seq[i] : i \in 1..Len(seq)}

Done(r) == pc[r] = "done"

\* serviceErr of the handler: the repository call that failed, "" for nil.
ServiceErr(r) ==
    IF status[r] = 500 THEN calls[r][Len(calls[r])] ELSE ""

\* The pair loop of r has run to its end.
LoopOver(r) ==
    \/ pc[r] = "generate" /\ idx[r] > NumPairs(r)
    \/ pc[r] = "links"
    \/ pc[r] = "done" /\ "GetActiveMonthlySettingBillings" \in Range(calls[r])
                      /\ ServiceErr(r) # "GetActiveMonthlySettingBillings"

PersistenceCalls(r) ==
    {k \in 1..Len(calls[r]) :
        calls[r][k] \in {"CreateBulkBillings", "CreateBulkBillingProfileLinks"}}

BillingsBy(r) == {i \in 1..Len(billings) : billings[i].by = r}
LinksBy(r) == {i \in 1..Len(links) : links[i].by = r}

\* Billing rows of one (user, setting, month, year).
RowsOfKey(u, sid, m, y) ==
    {i \in 1..Len(billings) :
        /\ billings[i].user = u /\ billings[i].setting = sid
        /\ billings[i].bulan = m /\ billings[i].tahun = y}

-----------------------------------------------------------------------------
(* C1 *)

\* C1: a request with a non-empty user set U and a non-empty setting set S
\* attempts exactly |U| x |S| pairs: total_billings = total_users x |S|, and
\* each (user, setting) pair is attempted exactly once.
C1_PairsAttemptedOnce ==
    \A r \in Reqs :
        (LoopOver(r) /\ users[r] # <<>> /\ setts[r] # <<>>) =>
            /\ Len(attempts[r]) = Cardinality(Range(users[r])) * Len(setts[r])
            /\ resp[r].total_billings = resp[r].total_users * Len(setts[r])
            /\ \A u \in Range(users[r]), s \in Range(setts[r]) :
                  Cardinality({k \in 1..Len(attempts[r]) :
                                  attempts[r][k] = <<u, s.id>>}) = 1

-----------------------------------------------------------------------------
(* C2 *)

\* C2: success_count + failed_count = total_billings, in every state of
\* every request: before, inside and after the pair loop, and so in every
\* response, whatever pairs succeeded or failed.
C2_CountsAddUp ==
    \A r \in Reqs :
        resp[r].success_count + resp[r].failed_count = resp[r].total_billings

\* A 200 response that reports successes and failures side by side.
C2_Witness ==
    \E r \in Reqs :
        /\ Done(r) /\ status[r] = 200
        /\ resp[r].success_count > 0
        /\ resp[r].failed_count > 0

-----------------------------------------------------------------------------
(* C3 *)

\* The Billing rows linked to the profile of user u, of month m and year y.
Underlying(u, m, y) ==
    {i \in 1..Len(billings) :
        /\ billings[i].bulan = m /\ billings[i].tahun = y
        /\ \E l \in 1..Len(links) :
              links[l].billing = billings[i].id /\ links[l].profile = u}

RECURSIVE SumNominal(_)
SumNominal(S) ==
    IF S = {} THEN 0
    ELSE LET i == CHOOSE j \in S : TRUE
         IN  billings[i].nominal + SumNominal(S \ {i})

\* The Billing rows that are linked to an occupant user.
OccupantBillings ==
    {i \in 1..Len(billings) :
        \E l \in 1..Len(links) :
            links[l].billing = billings[i].id /\ IsOccupant(links[l].profile)}

OwnerOf(i) ==
    CHOOSE u \in UserTable :
        \E l \in 1..Len(links) :
            links[l].billing = billings[i].id /\ links[l].profile = u

SumsMatch(out) ==
    /\ \A k \in 1..Len(out) :
          out[k].nominal =
              SumNominal(Underlying(out[k].user_id, out[k].bulan, out[k].tahun))
    /\ \A i \in OccupantBillings :
          Cardinality({k \in 1..Len(out) :
                          /\ out[k].user_id = OwnerOf(i)
                          /\ out[k].bulan = billings[i].bulan
                          /\ out[k].tahun = billings[i].tahun}) = 1

\* C3: each output row of a successful aggregation carries the arithmetic
\* sum of the nominal of all Billing rows of its (user, month, year), and
\* every Billing row of an occupant user falls into exactly one output row.
C3_AggregatorSums ==
    [][(aggCalls' # aggCalls /\ report'.status = 200) => SumsMatch(report'.rows)]_vars

\* Billings of 10000 and 5000 of one user in (3, 2025) reported as 15000.
C3_Witness ==
    /\ report.status = 200
    /\ \E k \in 1..Len(report.rows) :
          /\ report.rows[k].nominal = 15000
          /\ report.rows[k].bulan = 3 /\ report.rows[k].tahun = 2025
          /\ Cardinality(Underlying(report.rows[k].user_id, 3, 2025)) = 2

-----------------------------------------------------------------------------
(* C4 *)

\* C4: a request whose month is outside 1..12 or whose year is outside
\* 2020..2100 (a missing field is 0) is answered 400 at once: it makes no
\* repository call, attempts no pair and creates no row.
C4_InvalidRejected ==
    \A r \in Reqs :
        (pc[r] # "idle" /\ ~(req[r].month \in 1..12 /\ req[r].year \in 2020..2100))
            => /\ Done(r) /\ status[r] = 400
               /\ calls[r] = <<>>
               /\ attempts[r] = <<>>
               /\ users[r] = <<>> /\ setts[r] = <<>>
               /\ BillingsBy(r) = {} /\ LinksBy(r) = {}

\* Month 13 and year 1999 both rejected, while the other request was served.
C4_Witness ==
    \E r \in Reqs, q \in Reqs :
        /\ status[r] = 400 /\ req[r].month = 13
        /\ status[q] = 200 /\ billings # <<>>

-----------------------------------------------------------------------------
(* C5 *)

\* C5: once a request has completed, every Billing row it created has
\* exactly one BillingProfileLink row created by the same request, whether
\* the two bulk inserts both succeeded or one of them failed.
C5_EveryBillingLinked ==
    \A r \in Reqs :
        Done(r) =>
            \A i \in BillingsBy(r) :
                Cardinality({l \in LinksBy(r) :
                                links[l].billing = billings[i].id}) = 1

-----------------------------------------------------------------------------
(* C6 *)

\* C6: every Billing row in storage carries the month and the year of the
\* request that created it, hence a month in 1..12 and a year in 2020..2100.
C6_PeriodOfRequest ==
    \A i \in 1..Len(billings) :
        /\ billings[i].bulan = req[billings[i].by].month
        /\ billings[i].tahun = req[billings[i].by].year
        /\ billings[i].bulan \in 1..12
        /\ billings[i].tahun \in 2020..2100

\* Two requests for different months have both left their rows.
C6_Witness ==
    \E i \in 1..Len(billings), j \in 1..Len(billings) :
        /\ billings[i].by # billings[j].by
        /\ billings[i].bulan = 3 /\ billings[j].bulan = 12

-----------------------------------------------------------------------------
(* C7 *)

\* C7: two bulk generations in sequence for the same user set, month and
\* year both report success, and afterwards the number of Billing rows of
\* each (user, setting, month, year) they generated is 2.
C7_SecondCallDoubles ==
    \A r \in Reqs, q \in Reqs :
        (/\ r < q /\ Done(r) /\ Done(q)
         /\ status[r] = 200 /\ status[q] = 200
         /\ r \notin during[q]
         /\ req[r] = req[q])
            => \A i \in BillingsBy(r) \cup BillingsBy(q) :
                  Cardinality(RowsOfKey(billings[i].user, billings[i].setting,
                                        billings[i].bulan, billings[i].tahun)) = 2

-----------------------------------------------------------------------------
(* C8 *)

\* r and q were in flight at the same time.
Overlap(r, q) == r \in during[q] \/ q \in during[r]

\* The (user, setting) keys r constructed a Billing for.
KeysOf(r) == {<<newBillings[r][i].user, newBillings[r][i].setting>> :
                 i \in 1..Len(newBillings[r])}

\* C8: two bulk generations for the same (month, year) that overlap in time
\* and both answer 200 have each inserted their own Billing row for every
\* (user, setting) they have in common: nothing excludes one of them, and
\* storage then holds duplicate rows of that user, setting and period.
C8_ConcurrentDuplicates ==
    \A r \in Reqs, q \in Reqs :
        (/\ r # q /\ Overlap(r, q)
         /\ Done(r) /\ Done(q) /\ status[r] = 200 /\ status[q] = 200
         /\ req[r].month = req[q].month /\ req[r].year = req[q].year)
            => \A k \in KeysOf(r) \cap KeysOf(q) :
                  LET rows == RowsOfKey(k[1], k[2], req[r].month, req[r].year)
                  IN  /\ rows \cap BillingsBy(r) # {}
                      /\ rows \cap BillingsBy(q) # {}
                      /\ Cardinality(rows) >= 2

\* Two requests were in flight at the same time, both answered 200, and a
\* (user, setting, period) they have in common has two rows.
C8_Witness ==
    \E r \in Reqs, q \in Reqs :
        /\ r # q /\ Overlap(r, q)
        /\ Done(r) /\ Done(q) /\ status[r] = 200 /\ status[q] = 200
        /\ req[r].month = req[q].month /\ req[r].year = req[q].year
        /\ \E k \in KeysOf(r) \cap KeysOf(q) :
              Cardinality(RowsOfKey(k[1], k[2], req[r].month, req[r].year)) >= 2

-----------------------------------------------------------------------------
(* C9, checked in the batch scenario *)

\* The least q with q * d >= n.
CeilDiv(n, d) == CHOOSE q \in 0..n : q * d >= n /\ (q = 0 \/ (q - 1) * d < n)

RECURSIVE Concat(_)
Concat(seqs) == IF seqs = <<>> THEN <<>> ELSE Head(seqs) \o Concat(Tail(seqs))

\* The inserts issued are the leading batches of the list, in list order,
\* of 100 rows each but for a shorter last one.
IssuedInOrder ==
    /\ \A k \in 1..Len(bOut.issued) :
          /\ Len(bOut.issued[k]) <= 100
          /\ Len(bOut.issued[k]) > 0
          /\ k < CeilDiv(bIn.n, 100) => Len(bOut.issued[k]) = 100
    /\ Concat(bOut.issued) = SubSeq(BatchRows, 1, Len(Concat(bOut.issued)))

BatchFails == bIn.failAt \in 1..CeilDiv(bIn.n, 100)

WhenNoBatchFails ==
    ~BatchFails =>
        /\ bOut.ok
        /\ Len(bOut.issued) = CeilDiv(bIn.n, 100)
        /\ Concat(bOut.issued) = BatchRows
        /\ bOut.persisted = BatchRows

\* C9 as stated: n records go out as ceil(n/100) batches of at most 100
\* rows in list order, and when the 2nd batch fails the operation fails, the
\* first 100 rows stay persisted and the rows after them are not persisted.
C9_FirstBatchKept ==
    bOut.done =>
        /\ IssuedInOrder
        /\ WhenNoBatchFails
        /\ (BatchFails /\ bIn.failAt = 2) =>
               /\ ~bOut.ok
               /\ bOut.persisted = SubSeq(BatchRows, 1, 100)

\* C9 amended: n records go out as ceil(n/100) batches of at most 100 rows
\* in list order; when batch k fails, the operation fails after k inserts
\* and no row of the list is persisted, the rows of the batches before k
\* included (250 records, 2nd batch failing: none of the 250 is persisted).
C9_FailedBatchLeavesNothing ==
    bOut.done =>
        /\ IssuedInOrder
        /\ WhenNoBatchFails
        /\ BatchFails =>
               /\ ~bOut.ok
               /\ Len(bOut.issued) = bIn.failAt
               /\ bOut.persisted = <<>>

\* 250 records, the 2nd batch fails: batches of 100 and 100 were issued.
C9_Witness ==
    /\ bOut.done /\ bIn.n = 250 /\ bIn.failAt = 2
    /\ ~bOut.ok
    /\ Len(bOut.issued) = 2
    /\ Len(bOut.issued[1]) = 100 /\ Len(bOut.issued[2]) = 100

-----------------------------------------------------------------------------
(* C10 *)

NoOccupant == \A u \in UserTable : ~IsOccupant(u)

-----------------------------------------------------------------------------
(* C11 *)

\* C11: the user list one request generates for never holds the same user
\* identifier twice, whether it comes from the role join or from the caller.
C11_NoUserTwice ==
    \A r \in Reqs :
        \A i, j \in 1..Len(users[r]) : users[r][i] = users[r][j] => i = j

-----------------------------------------------------------------------------
(* C12 *)

\* The setting load of r has returned its rows.
SettingsLoaded(r) ==
    \/ pc[r] \in {"generate", "links"}
    \/ /\ pc[r] = "done"
       /\ "GetActiveMonthlySettingBillings" \in Range(calls[r])
       /\ serviceErr[r] # "GetActiveMonthlySettingBillings"

\* The row is not monthly, or not active, or not published.
FailsACondition(s) ==
    s.jenis_billing # "bulanan" \/ s.is_active = FALSE \/ s.published = FALSE

\* C12: the loaded settings are exactly the rows of the table that are
\* monthly, active and published, each once; and no Billing row is generated
\* from a row failing one of the three conditions.
C12_LoaderExact ==
    /\ \A r \in Reqs :
          SettingsLoaded(r) =>
              /\ Range(setts[r]) =
                     {s \in Range(settings) : ~FailsACondition(s)}
              /\ Len(setts[r]) = Cardinality(Range(setts[r]))
    /\ \A i \in 1..Len(billings) :
          \A s \in Range(settings) :
              FailsACondition(s) => billings[i].setting # s.id

\* A request loaded two live settings out of five rows and its Billings are
\* in storage.
C12_Witness ==
    \E r \in Reqs :
        /\ status[r] = 200
        /\ Len(setts[r]) = 2
        /\ Len(settings) = 5
        /\ BillingsBy(r) # {}

-----------------------------------------------------------------------------
(* C13 *)

ReadErrors == {"GetUsersWithPenghuniRole", "GetActiveMonthlySettingBillings"}

\* C13: a request whose user resolution or setting load returned a storage
\* error is answered 500 as a whole: it has constructed nothing, has made no
\* persistence call, and no Billing or link row in storage is its own.
C13_ReadErrorFailsAll ==
    \A r \in Reqs :
        serviceErr[r] \in ReadErrors =>
            /\ pc[r] = "done"
            /\ status[r] = 500
            /\ attempts[r] = <<>>
            /\ newBillings[r] = <<>> /\ newLinks[r] = <<>>
            /\ PersistenceCalls(r) = {}
            /\ BillingsBy(r) = {} /\ LinksBy(r) = {}

\* The users of a request were resolved from storage, and its setting load
\* then failed.
C13_Witness ==
    \E r \in Reqs :
        /\ serviceErr[r] = "GetActiveMonthlySettingBillings"
        /\ req[r].user_ids = <<>>
        /\ users[r] # <<>>

-----------------------------------------------------------------------------
(* C14 *)

\* The attempts of r whose construction failed: the user has no profile.
FailedAttempts(r) ==
    {k \in 1..Len(attempts[r]) : ~HasProfile(attempts[r][k][1])}

\* The (user, setting) keys of the Billings r has constructed, in order.
ConstructedKeys(r) ==
    [i \in 1..Len(newBillings[r]) |->
        <<newBillings[r][i].user, newBillings[r][i].setting>>]

\* C14: a pair whose construction fails is skipped and counted: at every
\* moment failed_count is the number of failed attempts, the constructed
\* Billings are the attempts that did not fail, in order; and once the loop is
\* over every pair of the user list and the setting list has been attempted,
\* those after a failed one included.
C14_FailedPairSkipped ==
    \A r \in Reqs :
        SettingsLoaded(r) =>
            /\ resp[r].failed_count = Cardinality(FailedAttempts(r))
            /\ ConstructedKeys(r) =
                   SelectSeq(attempts[r], LAMBDA a : HasProfile(a[1]))
            /\ \A k \in 1..Len(attempts[r]) :
                  attempts[r][k] =
                      <<users[r][((k - 1) \div Len(setts[r])) + 1],
                        setts[r][((k - 1) % Len(setts[r])) + 1].id>>
            /\ LoopOver(r) =>
                  Len(attempts[r]) = Len(users[r]) * Len(setts[r])

\* A request answered 200 in which a pair failed and a later pair was
\* constructed and persisted.
C14_Witness ==
    \E r \in Reqs :
        /\ status[r] = 200
        /\ resp[r].failed_count >= 1
        /\ \E k1, k2 \in 1..Len(attempts[r]) :
              /\ k1 < k2
              /\ k1 \in FailedAttempts(r)
              /\ k2 \notin FailedAttempts(r)
              /\ \E i \in BillingsBy(r) :
                    /\ billings[i].user = attempts[r][k2][1]
                    /\ billings[i].setting = attempts[r][k2][2]

-----------------------------------------------------------------------------
(* C15 *)

PersistErrors == {"CreateBulkBillings", "CreateBulkBillingProfileLinks"}

CountFields == {"total_users", "total_billings", "success_count",
                "failed_count"}

\* C15: a request whose bulk persistence failed is answered with an overall
\* failure whose body carries the counts accumulated before the failure.
C15_FailureCarriesCounts ==
    \A r \in Reqs :
        serviceErr[r] \in PersistErrors =>
            /\ status[r] = 500
            /\ \A f \in CountFields :
                  /\ f \in DOMAIN ResponseBody(r)
                  /\ ResponseBody(r)[f] = resp[r][f]

\* C15, as the handler behaves: a request whose bulk persistence failed is
\* answered 500 with the error and its message only; the counts accumulated
\* by then (at least one constructed pair) are not in the body.
C15_FailureCarriesErrorOnly ==
    \A r \in Reqs :
        serviceErr[r] \in PersistErrors =>
            /\ status[r] = 500
            /\ DOMAIN ResponseBody(r) = {"error", "message"}
            /\ ResponseBody(r).message = serviceErr[r]
            /\ resp[r].success_count >= 1
            /\ resp[r].total_billings = Len(attempts[r])

\* The link insert of a request failed after two pairs were counted, one of
\* them as failed.
C15_Witness ==
    \E r \in Reqs :
        /\ serviceErr[r] = "CreateBulkBillingProfileLinks"
        /\ resp[r].success_count >= 1
        /\ resp[r].failed_count >= 1

-----------------------------------------------------------------------------
(* C16 *)

\* The (user, month, year) keys of an aggregated list.
OutKeys(out) ==
    {<<out[k].user_id, out[k].bulan, out[k].tahun>> : k \in 1..Len(out)}

\* The (user, month, year) keys that have at least one Billing row linked to
\* an occupant user.
OccupantKeys ==
    {<<links[l].profile, billings[i].bulan, billings[i].tahun>> :
        <<l, i>> \in {p \in (1..Len(links)) \X (1..Len(billings)) :
                        /\ links[p[1]].billing = billings[p[2]].id
                        /\ IsOccupant(links[p[1]].profile)}}

\* C16: the list of a successful aggregation has exactly one row for every
\* (user, month, year) that has a Billing row of an occupant user, no row
\* for any other key, and no two rows of one key.
C16_OneRowPerKey ==
    [][(aggCalls' # aggCalls /\ report'.status = 200) =>
          /\ OutKeys(report'.rows) = OccupantKeys
          /\ Cardinality(OutKeys(report'.rows)) = Len(report'.rows)]_vars

\* A report of two or more keys, one of which merges several Billing rows.
C16_Witness ==
    /\ report.status = 200
    /\ Len(report.rows) >= 2
    /\ \E k \in 1..Len(report.rows) : report.rows[k].nominal \in {15000, 20000}

-----------------------------------------------------------------------------
(* C17 *)

\* No row of the setting table is monthly, active and published.
NoLiveSetting == \A s \in Range(settings) : FailsACondition(s)

\* C17: with no active monthly setting in storage, a valid request whose
\* reads did not fail is answered 200 with total_billings, success_count and
\* failed_count all 0; it has made no persistence call and no row is its own.
C17_EmptySettingSet ==
    \A r \in Reqs :
        (/\ NoLiveSetting
         /\ pc[r] = "done"
         /\ ValidRequest(req[r])
         /\ serviceErr[r] \notin ReadErrors) =>
            /\ status[r] = 200
            /\ resp[r].total_billings = 0
            /\ resp[r].success_count = 0
            /\ resp[r].failed_count = 0
            /\ PersistenceCalls(r) = {}
            /\ BillingsBy(r) = {} /\ LinksBy(r) = {}

\* A request for two users answered 200 with nothing billed, the setting
\* table holding only rows that are not live.
C17_Witness ==
    \E r \in Reqs :
        /\ NoLiveSetting
        /\ settings # <<>>
        /\ status[r] = 200
        /\ resp[r].total_users >= 2
        /\ resp[r].total_billings = 0

-----------------------------------------------------------------------------
(* C18 *)

\* C18: an aggregation whose read does not fail, made when no user holds the
\* occupant role or when no Billing row is linked to an occupant user,
\* answers 200 with the empty list.
C18_EmptyReport ==
    [][(/\ aggCalls' # aggCalls
        /\ ~report'.err
        /\ (NoOccupant \/ OccupantBillings = {})) =>
           /\ report'.status = 200
           /\ report'.rows = <<>>]_vars

\* An aggregation answered 200 with the empty list while no user holds the
\* occupant role.
C18_Witness ==
    /\ NoOccupant
    /\ aggCalls = 1
    /\ ~report.err
    /\ report.status = 200
    /\ report.rows = <<>>

-----------------------------------------------------------------------------
(* C19 *)

IsPrefix(s, t) == Len(s) <= Len(t) /\ SubSeq(t, 1, Len(s)) = s

\* C19: in every step of bulk generation, aggregation or GetBillingByID the
\* Billing rows and the link rows already present stay as they are, in
\* place; rows are added only at the end of a table, and only by a step that
\* calls CreateBulkBillings, respectively CreateBulkBillingProfileLinks.
C19_RowsOnlyAdded ==
    [][/\ IsPrefix(billings, billings')
       /\ IsPrefix(links, links')
       /\ billings' # billings =>
             \E r \in Reqs :
                 calls'[r] = Append(calls[r], "CreateBulkBillings")
       /\ links' # links =>
             \E r \in Reqs :
                 calls'[r] = Append(calls[r], "CreateBulkBillingProfileLinks")
      ]_vars

\* Two bulk generations have added rows, one after the other; an aggregation
\* has reported and a lookup has found its Billing.
C19_Witness ==
    /\ BillingsBy(1) # {} /\ BillingsBy(2) # {}
    /\ LinksBy(1) # {} /\ LinksBy(2) # {}
    /\ report.status = 200
    /\ lookup.found

-----------------------------------------------------------------------------
(* C20 *)

\* C20: an aggregation step creates, updates and deletes no row (users and
\* their roles, settings, Billings and links stay as they are) and leaves
\* every bulk generation, finished or in flight, with its state and its
\* result as they were.
C20_AggregationReadsOnly ==
    [][aggCalls' # aggCalls =>
          /\ UNCHANGED <<userRoles, settings, billings, links>>
          /\ UNCHANGED <<pc, req, users, setts, idx, newBillings, newLinks,
                         resp, status, serviceErr, calls, attempts, during>>
      ]_vars

\* Two bulk generations, the second bound after the first had ended, both
\* answered 200, and an aggregation that read rows of the first and not yet
\* those of the second.
C20_Witness ==
    /\ status[1] = 200 /\ status[2] = 200
    /\ during[2] = {}
    /\ LinksBy(1) # {} /\ LinksBy(2) # {}
    /\ report.status = 200
    /\ \E k \in 1..Len(report.rows) :
          report.rows[k].nominal <
              SumNominal(Underlying(report.rows[k].user_id,
                                    report.rows[k].bulan,
                                    report.rows[k].tahun))

-----------------------------------------------------------------------------
(* C21 *)

\* The user list of r is settled: r is past binding and resolution.
UsersResolved(r) ==
    \/ pc[r] \in {"load", "generate", "links"}
    \/ /\ pc[r] = "done"
       /\ ValidRequest(req[r])
       /\ serviceErr[r] # "GetUsersWithPenghuniRole"

\* C21: a request with a non-empty user_ids list generates for that list as
\* supplied and never queries users by role; a request without one generates
\* for the users holding a role of the occupant type, all of them and no
\* other; and every Billing of a request is of a user of its list.
C21_UsersOfRequest ==
    \A r \in Reqs :
        /\ UsersResolved(r) =>
              IF req[r].user_ids # <<>>
              THEN /\ users[r] = req[r].user_ids
                   /\ "GetUsersWithPenghuniRole" \notin Range(calls[r])
              ELSE /\ Range(users[r]) = {u \in UserTable : IsOccupant(u)}
                   /\ calls[r] # <<>>
                   /\ calls[r][1] = "GetUsersWithPenghuniRole"
        /\ LoopOver(r) /\ setts[r] # <<>> =>
              {attempts[r][k][1] : k \in 1..Len(attempts[r])} = Range(users[r])
        /\ \A i \in BillingsBy(r) : billings[i].user \in Range(users[r])

\* One request generated for its supplied list, an identifier of no user
\* included, and billed the other; another, without user_ids, billed the
\* occupant users.
C21_Witness ==
    \E r, q \in Reqs :
        /\ req[r].user_ids # <<>>
        /\ status[r] = 200
        /\ \E k \in 1..Len(attempts[r]) : attempts[r][k][1] \notin UserTable
        /\ BillingsBy(r) # {}
        /\ req[q].user_ids = <<>>
        /\ status[q] = 200
        /\ BillingsBy(q) # {}

-----------------------------------------------------------------------------
(* C22 *)

\* The repository calls of a request, in the order of the design.
CallOrder(r) ==
    (IF req[r].user_ids = <<>> THEN <<"GetUsersWithPenghuniRole">> ELSE <<>>)
    \o <<"GetActiveMonthlySettingBillings", "CreateBulkBillings",
         "CreateBulkBillingProfileLinks">>

\* Resolution and load precede the first pair, the last pair precedes the
\* first persistence call.
StepsOrdered(r) ==
    /\ IsPrefix(calls[r], CallOrder(r))
    /\ attempts[r] # <<>> =>
          /\ "GetActiveMonthlySettingBillings" \in Range(calls[r])
          /\ Len(users[r]) = resp[r].total_users
    /\ PersistenceCalls(r) # {} =>
          Len(attempts[r]) = Len(users[r]) * Len(setts[r])

\* C22: the calls of a request follow the order user resolution, setting
\* load, Billing insert, link insert; a pair is constructed only once the
\* user list and the setting list are there, and neither list changes from
\* then on; a persistence call is made only once every pair has been
\* attempted, and no pair is attempted after it.
C22_StepsInOrder ==
    /\ [](\A r \in Reqs : StepsOrdered(r))
    /\ [][\A r \in Reqs :
             /\ attempts[r] # <<>> =>
                   users'[r] = users[r] /\ setts'[r] = setts[r]
             /\ PersistenceCalls(r) # {} => attempts'[r] = attempts[r]]_vars

\* A request without user_ids has made its four calls in order around four
\* pairs.
C22_Witness ==
    \E r \in Reqs :
        /\ status[r] = 200
        /\ calls[r] = <<"GetUsersWithPenghuniRole",
                        "GetActiveMonthlySettingBillings",
                        "CreateBulkBillings",
                        "CreateBulkBillingProfileLinks">>
        /\ Len(attempts[r]) >= 4
        /\ Len(setts[r]) = 2

-----------------------------------------------------------------------------
(* C23 *)

\* The text is the decimal numeral of a positive integer that fits a uint32.
ValidUserIdText(p) ==
    /\ p # <<>>
    /\ \A i \in 1..Len(p) : IsDigit(p[i])
    /\ \E i \in 1..Len(p) : p[i] # "0"
    /\ FitsUint32(StripZeros(p))

\* The menus storage holds for the user the text names.
MenusInStore(p) ==
    IF Len(StripZeros(p)) <= 9 /\ NumeralValue(StripZeros(p)) \in UserTable
    THEN menuStore[NumeralValue(StripZeros(p))]
    ELSE <<>>

-----------------------------------------------------------------------------
(* C24 *)

\* The rows of a store that belong to role menu id.
RowsOfRoleMenu(st, id) ==
    [menus |-> st.menus \cap {id},
     masterLinks |-> {l \in st.masterLinks : l[1] = id},
     roleLinks |-> {l \in st.roleLinks : l[1] = id}]

\* C24: after Delete(id) has returned success the role menu and every
\* association row of it are gone; after it has returned an error the role
\* menu and its association rows are all as they were before the call.
C24_DeleteWithAssociations ==
    rmCall.called =>
        IF rmCall.err = <<>>
        THEN RowsOfRoleMenu(rmStore, rmCall.id) = NoRoleMenus
        ELSE RowsOfRoleMenu(rmStore, rmCall.id) =
                 RowsOfRoleMenu(rmCall.before, rmCall.id)

-----------------------------------------------------------------------------
(* C25, C26, C27: master menus *)

\* No request entered the service while another was inside it.
Sequential == \A r \in MasterReqs : mmReq[r].during = {}

\* Request r has returned and no request entered after it: mmRows is the
\* table r left, and, when r ran alone, mmReq[r].before the one it found.
LastReturned(r) ==
    /\ mmReq[r].pc = "done"
    /\ \A q \in MasterReqs : q > r => mmReq[q].pc = "idle"

CodesDistinct(rows) ==
    \A a, b \in rows : a.kode_menu = b.kode_menu => a.id = b.id

\* Some record of rows other than id carries the code.
KodeTaken(rows, kode, id) ==
    \E row \in rows : row.kode_menu = kode /\ row.id # id

\* Request r reached the kode_menu check: its earlier validations passed.
ReachedCreateCheck(r) ==
    /\ mmReq[r].op = "create" /\ mmReq[r].pc = "done"
    /\ mmReq[r].body.nama_menu # "" /\ mmReq[r].body.kode_menu # ""

ReachedUpdateCheck(r) ==
    /\ mmReq[r].op = "update" /\ mmReq[r].pc = "done"
    /\ mmReq[r].id # 0
    /\ \E row \in mmReq[r].before : row.id = mmReq[r].id
    /\ mmReq[r].body.kode_menu # Nil
    /\ mmReq[r].err \notin {"storage error", "record not found"}

\* C25: after sequential CreateMasterMenu, UpdateMasterMenu and
\* DeleteMasterMenu calls on a table of distinct codes no two master menus
\* share a kode_menu; a create whose code is taken and an update whose code
\* belongs to another record fail with "kode_menu already exists" and leave
\* the table as it was.
C25_SequentialCodesDistinct ==
    Sequential =>
      /\ CodesDistinct(mmRows)
      /\ \A r \in MasterReqs :
            /\ ReachedCreateCheck(r)
                 /\ KodeTaken(mmReq[r].before, mmReq[r].body.kode_menu, 0)
               => /\ mmReq[r].err = "kode_menu already exists"
                  /\ LastReturned(r) => mmRows = mmReq[r].before
            /\ ReachedUpdateCheck(r)
                 /\ KodeTaken(mmReq[r].before, mmReq[r].body.kode_menu,
                              mmReq[r].id)
               => /\ mmReq[r].err = "kode_menu already exists"
                  /\ LastReturned(r) => mmRows = mmReq[r].before

\* Requests q and r were inside CreateMasterMenu at the same time.
Overlapped(q, r) == q \in mmReq[r].during \/ r \in mmReq[q].during

\* C26: of two concurrent CreateMasterMenu requests that carry the same code,
\* unused when they arrived, at most one succeeds, and the codes of the table
\* stay distinct.
C26_OneCreateWins ==
    \A q, r \in MasterReqs :
        /\ q # r /\ Overlapped(q, r)
        /\ ReachedCreateCheck(q) /\ ReachedCreateCheck(r)
        /\ mmReq[q].body.kode_menu = mmReq[r].body.kode_menu
        /\ ~KodeTaken(mmReq[q].before, mmReq[q].body.kode_menu, 0)
        /\ ~KodeTaken(mmReq[r].before, mmReq[r].body.kode_menu, 0)
        => /\ ~(mmReq[q].err = "" /\ mmReq[r].err = "")
           /\ CodesDistinct(mmRows)

ContentFields ==
    {"id", "document_id", "nama_menu", "kode_menu", "urutan_menu",
     "is_active", "locale"}

Content(row) == [f \in ContentFields |-> row[f]]

\* The record with the fields present in the request replaced.
Requested(old, body) ==
    ApplyAfterKode(ApplyField(ApplyBeforeKode(old, body), body, "kode_menu"),
                   body)

\* C27: UpdateMasterMenu changes the fields present in the request and
\* nothing else, in that master menu or in any other; with id 0, an unknown
\* id or a code that belongs to another record it returns an error, and an
\* error leaves the table as it was.  The timestamp updated_at, which Save
\* sets by itself, is not counted.
C27_UpdateChangesRequestedOnly ==
    \A r \in MasterReqs :
        /\ mmReq[r].op = "update" /\ LastReturned(r)
        /\ mmReq[r].during = {}
        => LET id == mmReq[r].id
               body == mmReq[r].body
               before == mmReq[r].before
               known == \E row \in before : row.id = id
               old == CHOOSE row \in before : row.id = id
           IN  /\ id = 0 \/ ~known
                   \/ (body.kode_menu # Nil
                       /\ KodeTaken(before, body.kode_menu, id))
                  => mmReq[r].err # ""
               /\ mmReq[r].err # "" => mmRows = before
               /\ mmReq[r].err = ""
                  => {Content(row) : row \in mmRows}
                       = {Content(row) : row \in before \ {old}}
                           \cup {Content(Requested(old, body))}

-----------------------------------------------------------------------------
(* C28, C29: pagination *)

\* The text is a limit that GetPaginationParams accepts.
ValidLimitText(q) ==
    /\ q.present /\ q.text # <<>>
    /\ \A i \in 1..Len(q.text) : IsDigit(q.text[i]) \/ (i = 1 /\ q.text[i] = "+")
    /\ \E i \in 1..Len(q.text) : IsDigit(q.text[i])
    /\ Len(StripZeros(IF Head(q.text) = "+" THEN Tail(q.text) ELSE q.text)) <= 3
    /\ NumeralValue(IF Head(q.text) = "+" THEN Tail(q.text) ELSE q.text)
          \in 1..100

\* C28: for every value of the page and limit query parameters the two
\* listing handlers compute the page and limit of utils.GetPaginationParams,
\* with page >= 1, limit in 1..100 (10 when the text is invalid), and
\* offset = (page - 1) * limit >= 0.
C28_HandlersAsGetPaginationParams ==
    pgOut.handler \in {"master-menus", "role-menus"} =>
        LET std == GetPaginationParams(pgOut.query.page, pgOut.query.limit)
        IN  /\ pgOut.page = std.page
            /\ pgOut.limit = std.limit
            /\ pgOut.page >= 1
            /\ pgOut.limit \in 1..100
            /\ ~ValidLimitText(pgOut.query.limit) => pgOut.limit = 10
            /\ pgOut.offset = (pgOut.page - 1) * pgOut.limit
            /\ pgOut.offset >= 0

-----------------------------------------------------------------------------
(* C30: CreatePaymentLink *)

\* The text is an unsigned 32-bit number in decimal.
IsUint32Text(p) ==
    /\ p # <<>>
    /\ \A i \in 1..Len(p) : p[i] \in {"0", "1", "2", "3", "4", "5", "6", "7",
                                      "8", "9"}
    /\ LET n == StripZeros(p)
       IN  \/ Len(n) < 10
           \/ Len(n) = 10 /\ NumeralLeq(n, MaxUint32)

NotFoundErrors == {"billing record not found", "invalid billing nominal"}

\* C30: CreatePaymentLink writes exactly one response per request: 400 when
\* the id is not an unsigned 32-bit number, the payment service then not
\* being called; otherwise the service is called once, and the response is
\* 404 exactly for its errors "billing record not found" and "invalid
\* billing nominal", 500 for every other error and 200 only for no error.
C30_OneAnswerByError ==
    payOut.out # <<>> =>
        LET valid == IsUint32Text(payOut.param)
            err == payOut.serviceErr
            code == payOut.out[1].code
        IN  /\ Len(payOut.out) = 1
            /\ code \in {200, 400, 404, 500}
            /\ code = 400 <=> ~valid
            /\ payOut.called = IF valid THEN 1 ELSE 0
            /\ code = 404 <=> valid /\ err \in NotFoundErrors
            /\ code = 500 <=> valid /\ err # "" /\ err \notin NotFoundErrors
            /\ code = 200 <=> valid /\ err = ""

\* An id in range whose billing has no valid nominal was answered 404, the
\* service having been called.
C30_Witness ==
    /\ payOut.param = <<"4", "2", "9", "4", "9", "6", "7", "2", "9", "5">>
    /\ payOut.serviceErr = "invalid billing nominal"
    /\ payOut.called = 1
    /\ Len(payOut.out) = 1 /\ payOut.out[1].code = 404

====
